---- MODULE Spec2Model ----
(***************************************************************************)
(* Turnaround-aware calendar layout of shockwave_planner_v2.               *)
(*                                                                         *)
(* The model covers TimelineView (gui/timeline_view.py), the parts of      *)
(* LaunchDatabase it reads (data/database.py), and the editors that write  *)
(* the store (gui/launch_sites_view.py, main_window.py).                   *)
(*                                                                         *)
(* Four specifications share the state:                                    *)
(*   Spec      - the application as driven through its own GUI code: the   *)
(*               store holds only what the editors in the sources write.   *)
(*   StoreSpec - the view opened on arbitrary store contents that the db   *)
(*               interface accepts and returns (launch_date is free TEXT,  *)
(*               a site dict may carry a turnaround_days entry).           *)
(*   SyncSpec  - the main window with a SyncWorker thread (main_window.py) *)
(*               running beside the GUI thread that drives the view.       *)
(*   ZoneSpec  - the drop zone management view (gui/drop_zones_view.py)    *)
(*               on the reentry_sites table.                               *)
(***************************************************************************)
EXTENDS Integers, Sequences, FiniteSets, TLC

VARIABLES
    launch_sites,     \* table launch_sites: set of rows
    site_extra,       \* per site_id: the turnaround_days entry of the dict the store returns
    saved_turnaround, \* per site_id: site_data['turnaround_days'] last handed to the store
    launches,         \* table launches: sequence of rows, launch_id = index
    current_year,
    current_month,
    show_only_active,
    expanded_groups,
    initial_load,
    timeline_table,   \* what update_timeline last put into the QTableWidget
    table_current,    \* TRUE iff the store was not written since the last update_timeline
    pc,               \* "new": before init_ui; "ready": view constructed; "failed": __init__ raised;
                      \* "emit": inside launch_selected.emit, the connected slot is running
    launch_selected,  \* argument of the launch_selected signal being delivered (0: none)
    sync_pc,          \* SyncWorker.run: "idle" (no worker), "open", "api", "close", "returned"
    sync_type,        \* SyncWorker.sync_type
    sync_result,      \* the local variable result of SyncWorker.run
    finished_emits,   \* payloads of the finished.emit calls of the worker's run, in order
    finished_queue,   \* finished signals posted to the GUI thread and not yet delivered
    reentry_sites,    \* table reentry_sites: set of rows
    zones_table,      \* DropZonesView.table: the zone dicts of the last refresh_table
    zone_current_row, \* DropZonesView.table.currentRow(), -1: no row selected
    zone_message      \* title of the message box DropZonesView showed last ("": none)

vars == <<launch_sites, site_extra, saved_turnaround, launches, current_year,
          current_month, show_only_active, expanded_groups, initial_load,
          timeline_table, table_current, pc, launch_selected,
          sync_pc, sync_type, sync_result, finished_emits, finished_queue,
          reentry_sites, zones_table, zone_current_row, zone_message>>

zone_vars == <<reentry_sites, zones_table, zone_current_row, zone_message>>

sync_vars == <<sync_pc, sync_type, sync_result, finished_emits, finished_queue>>

view_vars == <<current_year, current_month, show_only_active, expanded_groups,
               initial_load, timeline_table, pc, launch_selected>>

store_vars == <<launch_sites, site_extra, saved_turnaround, launches>>

-----------------------------------------------------------------------------
(* Bounds and value pools                                                  *)

MaxLaunches == 2
MaxSites == 2

\* SQL NULL / Python None for TEXT columns, and for INTEGER foreign keys
NULL == "<NULL>"
NoSite == 0

\* months the cursor may visit: navigation is cut off outside [NavFirst, NavLast]
NavFirst == <<2023, 12>>
NavLast == <<2024, 2>>

\* datetime.now() when the view is constructed
StartMonth == <<2024, 1>>

\* strings of the model in code-point order (what sorted() and ORDER BY use)
LexOrder ==
    <<"", "CN", "Cape Canaveral", "Inner Mongolia", "Jiuquan", "LC-39A", "LZ-1", "Other",
      "Pacific Ocean", "SLC-40", "US", "Zone A">>

StrRank(s) == CHOOSE i \in 1..Len(LexOrder) : LexOrder[i] = s

SiteIds == 1..MaxSites

\* (location, launch_pad) a site editor may enter for the site with this id
SiteKey(id) ==
    IF id = 1 THEN <<"Cape Canaveral", "LC-39A">>
    ELSE IF id = 2 THEN <<"Jiuquan", "LC-39A">>
    ELSE <<"Cape Canaveral", "SLC-40">>

\* status_color of the statuses 'Scheduled' and 'Go for Launch'
Colors == {"#FFFF00", "#00FF00"}

Date(k, y, m, d) == [kind |-> k, y |-> y, m |-> m, d |-> d]

\* launch_date texts: "iso" is 'YYYY-MM-DD', "iso_time" is 'YYYY-MM-DDTHH:MM:SSZ',
\* "text" is a string SQLite cannot read as a date
EditorDates ==
    { Date("iso", 2023, 12, 28), Date("iso", 2024, 1, 10), Date("iso", 2024, 1, 12) }

ForeignDates ==
    { Date("iso", 2024, 1, 10), Date("iso", 2024, 1, 12),
      Date("iso_time", 2024, 1, 10), Date("text", 0, 0, 0) }

\* launch_date texts of the stored launches that have no site
OrphanDates == { Date("iso", 2024, 1, 10), Date("iso_time", 2024, 1, 10) }

\* the turnaround_days entry of a site dict: absent, None, or an integer
NoEntry == [present |-> FALSE, null |-> FALSE, val |-> 0]
NullEntry == [present |-> TRUE, null |-> TRUE, val |-> 0]
IntEntry(n) == [present |-> TRUE, null |-> FALSE, val |-> n]

SuppliedEntries == { NoEntry, NullEntry, IntEntry(-1), IntEntry(0), IntEntry(5) }

-----------------------------------------------------------------------------
(* Calendar and date conversions                                           *)

IsLeap(y) == (y % 4 = 0 /\ y % 100 # 0) \/ y % 400 = 0

\* variant: February has 28 days in every year
monthrange_noleap(y, m) ==
    IF m = 2 THEN 28
    ELSE IF m \in {4, 6, 9, 11} THEN 30 ELSE 31

\* calendar.monthrange(year, month)[1]
monthrange(y, m) ==
    IF m = 2 THEN (IF IsLeap(y) THEN 29 ELSE 28)
    ELSE IF m \in {4, 6, 9, 11} THEN 30 ELSE 31

\* datetime.strptime(text, '%Y-%m-%d').day; 0 stands for ValueError
strptime_day(date) ==
    IF date.kind = "iso" /\ date.d >= 1 /\ date.d <= monthrange(date.y, date.m)
    THEN date.d ELSE 0

\* <<strftime('%Y', text), strftime('%m', text)>> in SQLite; <<0, 0>> stands for NULL.
\* SQLite reads a date with a time part, and carries a day past the month's end over.
strftime_ym(date) ==
    IF date.kind = "text" \/ date.d < 1 \/ date.d > 31 THEN <<0, 0>>
    ELSE IF date.d <= monthrange(date.y, date.m) THEN <<date.y, date.m>>
    ELSE IF date.m = 12 THEN <<date.y + 1, 1>> ELSE <<date.y, date.m + 1>>

\* position of the launch_date text in ORDER BY launch_date (texts the month query keeps)
DateTextKey(date) ==
    ((date.y * 12 + date.m) * 32 + date.d) * 2 + (IF date.kind = "iso_time" THEN 1 ELSE 0)

-----------------------------------------------------------------------------
(* LaunchDatabase queries                                                  *)

SiteLess(a, b) ==
    \/ StrRank(a.location) < StrRank(b.location)
    \/ a.location = b.location /\ StrRank(a.launch_pad) < StrRank(b.launch_pad)

RECURSIVE SortSites(_)
SortSites(S) ==
    IF S = {} THEN <<>>
    ELSE LET first == CHOOSE x \in S : \A y \in S \ {x} : SiteLess(x, y)
         IN  <<first>> \o SortSites(S \ {first})

\* SELECT site_id, location, launch_pad, ..., country FROM launch_sites
\* ORDER BY location, launch_pad
get_all_sites(sites) == SortSites(sites)

\* l.* with ls.location, ls.launch_pad and st.status_color LEFT JOINed on
JoinedLaunch(sites, rows, id) ==
    LET l == rows[id]
        found == { s \in sites : s.site_id = l.site_id }
        ls == CHOOSE s \in found : TRUE
    IN  [launch_id |-> id,
         launch_date |-> l.launch_date,
         location |-> IF found = {} THEN NULL ELSE ls.location,
         launch_pad |-> IF found = {} THEN NULL ELSE ls.launch_pad,
         status_color |-> l.status_color]

LaunchLess(rows, i, j) ==
    \/ DateTextKey(rows[i].launch_date) < DateTextKey(rows[j].launch_date)
    \/ DateTextKey(rows[i].launch_date) = DateTextKey(rows[j].launch_date) /\ i < j

RECURSIVE SortLaunchIds(_, _)
SortLaunchIds(rows, ids) ==
    IF ids = {} THEN <<>>
    ELSE LET first == CHOOSE i \in ids : \A j \in ids \ {i} : LaunchLess(rows, i, j)
         IN  <<first>> \o SortLaunchIds(rows, ids \ {first})

\* WHERE strftime('%Y', launch_date) = year AND strftime('%m', launch_date) = month
\* ORDER BY launch_date, launch_time  (equal keys stay in rowid order)
get_launches_by_month(sites, rows, year, month) ==
    LET ids == { i \in 1..Len(rows) : strftime_ym(rows[i].launch_date) = <<year, month>> }
        order == SortLaunchIds(rows, ids)
    IN  [k \in 1..Len(order) |-> JoinedLaunch(sites, rows, order[k])]

-----------------------------------------------------------------------------
(* TimelineView.update_timeline                                            *)

pad_turnaround_days == 7

PrevMonthOf(year, month) ==
    IF month - 1 < 1 THEN <<year - 1, 12>> ELSE <<year, month - 1>>

\* variant: only a null country falls into the bucket, an empty string is kept
NormCountry_nullonly(c) == IF c = NULL THEN "Other" ELSE c

\* country = site.get('country', 'Other'); if not country or country == '': 'Other'
NormCountry(c) == IF c = NULL \/ c = "" THEN "Other" ELSE c

\* site.get('turnaround_days', self.pad_turnaround_days)
SiteGetTurnaround(extra, site) ==
    IF extra[site.site_id].present
    THEN [null |-> extra[site.site_id].null, val |-> extra[site.site_id].val]
    ELSE [null |-> FALSE, val |-> pad_turnaround_days]

\* variant: a launch without a site is listed on every pad
SiteLaunches_orphans(month_launches, site) ==
    SelectSeq(month_launches,
              LAMBDA l : \/ l.location = site.location /\ l.launch_pad = site.launch_pad
                         \/ l.location = NULL)

\* site_launches.get(site_key, [])
SiteLaunches(month_launches, site) ==
    SelectSeq(month_launches,
              LAMBDA l : l.location = site.location /\ l.launch_pad = site.launch_pad)

\* the dict appended to country_sites_map[country]
SiteRow(extra, site, month_launches) ==
    [type |-> "site",
     country |-> NormCountry(site.country),
     location |-> site.location,
     pad |-> site.launch_pad,
     site_id |-> site.site_id,
     turnaround_days |-> SiteGetTurnaround(extra, site),
     launches |-> SiteLaunches(month_launches, site)]

GroupRow(country, expanded) ==
    [type |-> "group", country |-> country, expanded |-> expanded]

\* variant: the filter does not drop a pad without launches
CountrySites_nofilter(extra, all_sites, month_launches, active, country) ==
    LET kept == SelectSeq(all_sites, LAMBDA s : NormCountry(s.country) = country)
    IN  [k \in 1..Len(kept) |-> SiteRow(extra, kept[k], month_launches)]

\* country_sites_map[country]
CountrySites(extra, all_sites, month_launches, active, country) ==
    LET kept == SelectSeq(all_sites,
                    LAMBDA s : /\ NormCountry(s.country) = country
                               /\ (SiteLaunches(month_launches, s) # <<>> \/ ~active))
    IN  [k \in 1..Len(kept) |-> SiteRow(extra, kept[k], month_launches)]

\* variant: sorted(..., reverse=True)
RECURSIVE SortStrings_desc(_)
SortStrings_desc(S) ==
    IF S = {} THEN <<>>
    ELSE LET first == CHOOSE x \in S : \A y \in S \ {x} : StrRank(x) > StrRank(y)
         IN  <<first>> \o SortStrings_desc(S \ {first})

RECURSIVE SortStrings(_)
SortStrings(S) ==
    IF S = {} THEN <<>>
    ELSE LET first == CHOOSE x \in S : \A y \in S \ {x} : StrRank(x) < StrRank(y)
         IN  <<first>> \o SortStrings(S \ {first})

\* any(s['launches'] for s in sites)
CountryHasLaunches(sites) == \E k \in 1..Len(sites) : sites[k].launches # <<>>

\* variant: the auto-expand is not limited to the initial load
ExpandedAfter_always(extra, all_sites, month_launches, active, expanded, initial) ==
    expanded \cup
    { c \in { NormCountry(all_sites[k].country) : k \in 1..Len(all_sites) } :
        CountryHasLaunches(CountrySites(extra, all_sites, month_launches, active, c)) }

\* self.expanded_groups after the row-building loop
ExpandedAfter(extra, all_sites, month_launches, active, expanded, initial) ==
    IF ~initial THEN expanded
    ELSE expanded \cup
         { c \in { NormCountry(all_sites[k].country) : k \in 1..Len(all_sites) } :
             CountryHasLaunches(CountrySites(extra, all_sites, month_launches, active, c)) }

\* variant: every country of country_sites_map gets its header row
RECURSIVE BuildRows_allheaders(_, _, _, _, _, _, _)
BuildRows_allheaders(countries, i, extra, all_sites, month_launches, active, expanded) ==
    IF i > Len(countries) THEN <<>>
    ELSE LET country == countries[i]
             sites == CountrySites(extra, all_sites, month_launches, active, country)
         IN  <<GroupRow(country, country \in expanded)>>
             \o (IF country \in expanded THEN sites ELSE <<>>)
             \o BuildRows_allheaders(countries, i + 1, extra, all_sites, month_launches,
                                     active, expanded)

RECURSIVE BuildRows(_, _, _, _, _, _, _)
BuildRows(countries, i, extra, all_sites, month_launches, active, expanded) ==
    IF i > Len(countries) THEN <<>>
    ELSE LET country == countries[i]
             sites == CountrySites(extra, all_sites, month_launches, active, country)
             here == IF sites # <<>> /\ (CountryHasLaunches(sites) \/ ~active)
                     THEN <<GroupRow(country, country \in expanded)>>
                          \o (IF country \in expanded THEN sites ELSE <<>>)
                     ELSE <<>>
         IN  here \o BuildRows(countries, i + 1, extra, all_sites, month_launches,
                               active, expanded)

\* row_data.get('prev_month_launches')
RowGetPrev(row) ==
    IF "prev_month_launches" \in DOMAIN row THEN row.prev_month_launches ELSE <<>>

\* variant: a day inside the windows of several launches is not in turnaround
RECURSIVE TurnaroundScan_single(_, _, _, _)
TurnaroundScan_single(ls, i, tv, col_day) ==
    IF \E k \in 1..Len(ls) : strptime_day(ls[k].launch_date) = 0 THEN "raise"
    ELSE IF tv.null /\ \E k \in 1..Len(ls) : strptime_day(ls[k].launch_date) < col_day
         THEN "raise"
    ELSE IF Cardinality({ k \in 1..Len(ls) :
                            /\ strptime_day(ls[k].launch_date) < col_day
                            /\ col_day <= strptime_day(ls[k].launch_date) + tv.val }) = 1
         THEN "hit"
    ELSE "miss"

\* variant: the window ends one day early (col_day < launch_day + site_turnaround)
RECURSIVE TurnaroundScan_short(_, _, _, _)
TurnaroundScan_short(ls, i, tv, col_day) ==
    IF i > Len(ls) THEN "miss"
    ELSE LET launch_day == strptime_day(ls[i].launch_date)
         IN  IF launch_day = 0 THEN "raise"
             ELSE IF launch_day < col_day
                  THEN IF tv.null THEN "raise"
                       ELSE IF col_day < launch_day + tv.val THEN "hit"
                       ELSE TurnaroundScan_short(ls, i + 1, tv, col_day)
                  ELSE TurnaroundScan_short(ls, i + 1, tv, col_day)

\* variant: the window also reaches back before the launch day
RECURSIVE TurnaroundScan_sym(_, _, _, _)
TurnaroundScan_sym(ls, i, tv, col_day) ==
    IF i > Len(ls) THEN "miss"
    ELSE LET launch_day == strptime_day(ls[i].launch_date)
         IN  IF launch_day = 0 THEN "raise"
             ELSE IF tv.null THEN "raise"
             ELSE IF launch_day - tv.val <= col_day /\ col_day <= launch_day + tv.val
                     /\ col_day # launch_day
                  THEN "hit"
                  ELSE TurnaroundScan_sym(ls, i + 1, tv, col_day)

\* for launch in row_data['launches']: ... if launch_day < col_day <= launch_day + site_turnaround
RECURSIVE TurnaroundScan(_, _, _, _)
TurnaroundScan(ls, i, tv, col_day) ==
    IF i > Len(ls) THEN "miss"
    ELSE LET launch_day == strptime_day(ls[i].launch_date)
         IN  IF launch_day = 0 THEN "raise"
             ELSE IF launch_day < col_day
                  THEN IF tv.null THEN "raise"
                       ELSE IF col_day <= launch_day + tv.val THEN "hit"
                       ELSE TurnaroundScan(ls, i + 1, tv, col_day)
                  ELSE TurnaroundScan(ls, i + 1, tv, col_day)

\* for prev_launch in row_data['prev_month_launches']: ... days_past_month_end
RECURSIVE PrevScan(_, _, _, _, _)
PrevScan(ps, i, tv, col_day, days_in_prev_month) ==
    IF i > Len(ps) THEN "miss"
    ELSE LET prev_launch_day == strptime_day(ps[i].launch_date)
         IN  IF prev_launch_day = 0 \/ tv.null THEN "raise"
             ELSE LET days_past_month_end ==
                          (prev_launch_day + tv.val) - days_in_prev_month
                  IN  IF days_past_month_end > 0 /\ col_day <= days_past_month_end
                      THEN "hit"
                      ELSE PrevScan(ps, i + 1, tv, col_day, days_in_prev_month)

Cell(state, count, launch_id, color) ==
    [state |-> state, count |-> count, launch_id |-> launch_id, color |-> color]

NoCell == Cell("NONE", 0, 0, "")
RaiseCell == Cell("RAISE", 0, 0, "")

\* variant: the last launch of the day is taken as the representative
DayCell_last(row, col_day, year, month) ==
    LET ls == row.launches
        day_launches == SelectSeq(ls, LAMBDA l : strptime_day(l.launch_date) = col_day)
        own == TurnaroundScan(ls, 1, row.turnaround_days, col_day)
    IN  IF \E i \in 1..Len(ls) : strptime_day(ls[i].launch_date) = 0 THEN RaiseCell
        ELSE IF day_launches # <<>>
             THEN Cell("EVENT", Len(day_launches),
                       day_launches[Len(day_launches)].launch_id,
                       day_launches[Len(day_launches)].status_color)
        ELSE IF own = "raise" THEN RaiseCell
        ELSE IF own = "hit" THEN Cell("RECOVERY", 0, 0, "#C8C8C8")
        ELSE Cell("IDLE", 0, 0, "#FFFFFF")

\* variant: an EVENT item always carries the count 1
DayCell_one(row, col_day, year, month) ==
    LET ls == row.launches
        day_launches == SelectSeq(ls, LAMBDA l : strptime_day(l.launch_date) = col_day)
        own == TurnaroundScan(ls, 1, row.turnaround_days, col_day)
    IN  IF \E i \in 1..Len(ls) : strptime_day(ls[i].launch_date) = 0 THEN RaiseCell
        ELSE IF day_launches # <<>>
             THEN Cell("EVENT", 1, day_launches[1].launch_id, day_launches[1].status_color)
        ELSE IF own = "raise" THEN RaiseCell
        ELSE IF own = "hit" THEN Cell("RECOVERY", 0, 0, "#C8C8C8")
        ELSE Cell("IDLE", 0, 0, "#FFFFFF")

\* variant: the turnaround check runs before the launches of the day are looked at
DayCell_recfirst(row, col_day, year, month) ==
    LET ls == row.launches
        bad == \E i \in 1..Len(ls) : strptime_day(ls[i].launch_date) = 0
        day_launches == SelectSeq(ls, LAMBDA l : strptime_day(l.launch_date) = col_day)
        own == TurnaroundScan(ls, 1, row.turnaround_days, col_day)
    IN  IF bad \/ own = "raise" THEN RaiseCell
        ELSE IF own = "hit" THEN Cell("RECOVERY", 0, 0, "#C8C8C8")
        ELSE IF day_launches # <<>>
             THEN Cell("EVENT", Len(day_launches), day_launches[1].launch_id,
                       day_launches[1].status_color)
        ELSE Cell("IDLE", 0, 0, "#FFFFFF")

\* the item update_timeline builds for (row, col_day); RaiseCell when the code raises there
DayCell(row, col_day, year, month) ==
    LET ls == row.launches
        bad == \E i \in 1..Len(ls) : strptime_day(ls[i].launch_date) = 0
        day_launches == SelectSeq(ls, LAMBDA l : strptime_day(l.launch_date) = col_day)
        site_turnaround == row.turnaround_days
        own == TurnaroundScan(ls, 1, site_turnaround, col_day)
        prev == PrevMonthOf(year, month)
        spill == IF own # "miss" \/ RowGetPrev(row) = <<>> THEN "miss"
                 ELSE PrevScan(RowGetPrev(row), 1, site_turnaround, col_day,
                               monthrange(prev[1], prev[2]))
    IN  IF bad THEN RaiseCell
        ELSE IF day_launches # <<>>
             THEN Cell("EVENT", Len(day_launches), day_launches[1].launch_id,
                       day_launches[1].status_color)
        ELSE IF own = "raise" \/ spill = "raise" THEN RaiseCell
        ELSE IF own = "hit" \/ spill = "hit" THEN Cell("RECOVERY", 0, 0, "#C8C8C8")
        ELSE Cell("IDLE", 0, 0, "#FFFFFF")

\* variant: the loop over col_day is skipped for a pad without launches
RowCells_skipempty(row, days_in_month, year, month) ==
    IF row.type = "group" THEN <<>>
    ELSE [d \in 1..days_in_month |->
            IF row.launches = <<>> THEN NoCell ELSE DayCell(row, d, year, month)]

\* variant: the loop over col_day stops one day early (range(1, days_in_month))
RowCells_skiplast(row, days_in_month, year, month) ==
    IF row.type = "group" THEN <<>>
    ELSE [d \in 1..days_in_month |->
            IF d < days_in_month THEN DayCell(row, d, year, month) ELSE NoCell]

\* the day items of one row as the loop over col_day leaves them
RowCells(row, days_in_month, year, month) ==
    IF row.type = "group" THEN <<>>
    ELSE LET full == [d \in 1..days_in_month |-> DayCell(row, d, year, month)]
             stop == IF \E d \in 1..days_in_month : full[d].state = "RAISE"
                     THEN CHOOSE d \in 1..days_in_month :
                              /\ full[d].state = "RAISE"
                              /\ \A e \in 1..(d - 1) : full[e].state # "RAISE"
                     ELSE days_in_month + 1
         IN  [d \in 1..days_in_month |-> IF d < stop THEN full[d] ELSE NoCell]

RowRaises(row, days_in_month, year, month) ==
    /\ row.type = "site"
    /\ \E d \in 1..days_in_month : DayCell(row, d, year, month).state = "RAISE"

\* what the table widget shows of a row (the row dict without its launch list)
Shown(row) ==
    IF row.type = "group" THEN row
    ELSE [type |-> "site", country |-> row.country, location |-> row.location,
          pad |-> row.pad, site_id |-> row.site_id,
          turnaround_days |-> row.turnaround_days]

EmptyTable == [rows |-> <<>>, cells |-> <<>>, days |-> 0, raised_at |-> 0]

\* index of the first row whose day loop raises (0: none does)
RaisedAt(rows, days_in_month, year, month) ==
    LET raising == { r \in 1..Len(rows) : RowRaises(rows[r], days_in_month, year, month) }
    IN  IF raising = {} THEN 0
        ELSE CHOOSE r \in raising : \A q \in raising : r <= q

\* the table after the loop over rows: items of the row that raised from the raising
\* day on, and of all later rows, are not set
RenderRows(rows, days_in_month, year, month, raised_at) ==
    [rows |-> [r \in 1..Len(rows) |-> Shown(rows[r])],
     cells |-> [r \in 1..Len(rows) |->
                  IF raised_at = 0 \/ r <= raised_at
                  THEN RowCells(rows[r], days_in_month, year, month)
                  ELSE IF rows[r].type = "group" THEN <<>>
                  ELSE [d \in 1..days_in_month |-> NoCell]],
     days |-> days_in_month,
     raised_at |-> raised_at]

\* setRowCount(len(rows)) and the loop filling the table
RenderTable(rows, days_in_month, year, month) ==
    RenderRows(rows, days_in_month, year, month,
               RaisedAt(rows, days_in_month, year, month))

\* variant: the rows are built from the expand set as it was when the call began
update_timeline_stale(sites, extra, rows_db, year, month, active, expanded, initial) ==
    LET month_launches == get_launches_by_month(sites, rows_db, year, month)
        all_sites == get_all_sites(sites)
        countries == SortStrings({ NormCountry(all_sites[k].country) : k \in 1..Len(all_sites) })
    IN  [expanded_groups |->
             ExpandedAfter(extra, all_sites, month_launches, active, expanded, initial),
         table |-> RenderTable(BuildRows(countries, 1, extra, all_sites, month_launches,
                                         active, expanded),
                               monthrange(year, month), year, month)]

\* update_timeline: the expand set it leaves and the table it renders.
\* raised_at is the index of the row whose rendering raised (0: the call returned).
update_timeline(sites, extra, rows_db, year, month, active, expanded, initial) ==
    LET month_launches == get_launches_by_month(sites, rows_db, year, month)
        all_sites == get_all_sites(sites)
        expanded2 == ExpandedAfter(extra, all_sites, month_launches, active, expanded, initial)
        countries == SortStrings({ NormCountry(all_sites[k].country) : k \in 1..Len(all_sites) })
    IN  [expanded_groups |-> expanded2,
         table |-> RenderTable(BuildRows(countries, 1, extra, all_sites, month_launches,
                                         active, expanded2),
                               monthrange(year, month), year, month)]

-----------------------------------------------------------------------------
(* ReentryTimelineView (gui/timeline_view_reentry.py) and the queries it   *)
(* reads: drop zones are rows of reentry_sites, events rows of reentries.  *)

\* SELECT reentry_site_id as site_id, location, drop_zone as launch_pad, ..., country
\* FROM reentry_sites ORDER BY location, drop_zone
get_all_sites_reentry(zones) ==
    SortSites({ [site_id |-> z.reentry_site_id, location |-> z.location,
                 launch_pad |-> z.drop_zone, country |-> z.country] : z \in zones })

\* re.* with rs.location, rs.drop_zone and st.status_color LEFT JOINed on
JoinedReentry(zones, rows, id) ==
    LET re == rows[id]
        found == { z \in zones : z.reentry_site_id = re.reentry_site_id }
        rs == CHOOSE z \in found : TRUE
    IN  [reentry_id |-> id,
         reentry_date |-> re.reentry_date,
         location |-> IF found = {} THEN NULL ELSE rs.location,
         drop_zone |-> IF found = {} THEN NULL ELSE rs.drop_zone,
         status_color |-> re.status_color]

ReentryLess(rows, i, j) ==
    \/ DateTextKey(rows[i].reentry_date) < DateTextKey(rows[j].reentry_date)
    \/ DateTextKey(rows[i].reentry_date) = DateTextKey(rows[j].reentry_date) /\ i < j

RECURSIVE SortReentryIds(_, _)
SortReentryIds(rows, ids) ==
    IF ids = {} THEN <<>>
    ELSE LET first == CHOOSE i \in ids : \A j \in ids \ {i} : ReentryLess(rows, i, j)
         IN  <<first>> \o SortReentryIds(rows, ids \ {first})

\* WHERE strftime('%Y', re.reentry_date) = year AND strftime('%m', re.reentry_date) = month
\* ORDER BY re.reentry_date, re.reentry_time
get_reentries_by_month(zones, rows, year, month) ==
    LET ids == { i \in 1..Len(rows) : strftime_ym(rows[i].reentry_date) = <<year, month>> }
        order == SortReentryIds(rows, ids)
    IN  [k \in 1..Len(order) |-> JoinedReentry(zones, rows, order[k])]

zone_turnaround_days == 7

\* country = zone.get('country', 'Other'); if not country or country == '': 'Other'
ZoneCountry(c) == IF c = NULL \/ c = "" THEN "Other" ELSE c

\* variant: a zone dict without a turnaround_days entry gets a window of 14 days
ZoneGetTurnaround_long(extra, zone) ==
    IF extra[zone.site_id].present
    THEN [null |-> extra[zone.site_id].null, val |-> extra[zone.site_id].val]
    ELSE [null |-> FALSE, val |-> 14]

\* zone.get('turnaround_days', self.zone_turnaround_days)
ZoneGetTurnaround(extra, zone) ==
    IF extra[zone.site_id].present
    THEN [null |-> extra[zone.site_id].null, val |-> extra[zone.site_id].val]
    ELSE [null |-> FALSE, val |-> zone_turnaround_days]

\* zone_reentries.get(zone_key, [])
ZoneReentries(month_reentries, zone) ==
    SelectSeq(month_reentries,
              LAMBDA r : r.location = zone.location /\ r.drop_zone = zone.launch_pad)

\* the dict appended to country_zones_map[country]
ZoneRow(extra, zone, month_reentries) ==
    [type |-> "zone",
     country |-> ZoneCountry(zone.country),
     location |-> zone.location,
     drop_zone |-> zone.launch_pad,
     site_id |-> zone.site_id,
     turnaround_days |-> ZoneGetTurnaround(extra, zone),
     reentries |-> ZoneReentries(month_reentries, zone)]

\* country_zones_map[country]
CountryZones(extra, all_sites, month_reentries, active, country) ==
    LET kept == SelectSeq(all_sites,
                    LAMBDA z : /\ ZoneCountry(z.country) = country
                               /\ (ZoneReentries(month_reentries, z) # <<>> \/ ~active))
    IN  [k \in 1..Len(kept) |-> ZoneRow(extra, kept[k], month_reentries)]

\* any(z['reentries'] for z in zones)
CountryHasReentries(zones) == \E k \in 1..Len(zones) : zones[k].reentries # <<>>

\* self.expanded_groups after the row-building loop
ReentryExpandedAfter(extra, all_sites, month_reentries, active, expanded, initial) ==
    IF ~initial THEN expanded
    ELSE expanded \cup
         { c \in { ZoneCountry(all_sites[k].country) : k \in 1..Len(all_sites) } :
             CountryHasReentries(CountryZones(extra, all_sites, month_reentries, active, c)) }

RECURSIVE ReentryBuildRows(_, _, _, _, _, _, _)
ReentryBuildRows(countries, i, extra, all_sites, month_reentries, active, expanded) ==
    IF i > Len(countries) THEN <<>>
    ELSE LET country == countries[i]
             zones == CountryZones(extra, all_sites, month_reentries, active, country)
             here == IF zones # <<>> /\ (CountryHasReentries(zones) \/ ~active)
                     THEN <<GroupRow(country, country \in expanded)>>
                          \o (IF country \in expanded THEN zones ELSE <<>>)
                     ELSE <<>>
         IN  here \o ReentryBuildRows(countries, i + 1, extra, all_sites, month_reentries,
                                      active, expanded)

\* row_data.get('prev_month_reentries')
ZoneRowGetPrev(row) ==
    IF "prev_month_reentries" \in DOMAIN row THEN row.prev_month_reentries ELSE <<>>

\* for reentry in row_data['reentries']: reentry_day < col_day <= reentry_day + window
RECURSIVE RecoveryScan(_, _, _, _)
RecoveryScan(rs, i, tv, col_day) ==
    IF i > Len(rs) THEN "miss"
    ELSE LET reentry_day == strptime_day(rs[i].reentry_date)
         IN  IF reentry_day = 0 THEN "raise"
             ELSE IF reentry_day < col_day
                  THEN IF tv.null THEN "raise"
                       ELSE IF col_day <= reentry_day + tv.val THEN "hit"
                       ELSE RecoveryScan(rs, i + 1, tv, col_day)
                  ELSE RecoveryScan(rs, i + 1, tv, col_day)

\* for prev_reentry in row_data['prev_month_reentries']: ... days_past_month_end
RECURSIVE PrevRecoveryScan(_, _, _, _, _)
PrevRecoveryScan(ps, i, tv, col_day, days_in_prev_month) ==
    IF i > Len(ps) THEN "miss"
    ELSE LET prev_reentry_day == strptime_day(ps[i].reentry_date)
         IN  IF prev_reentry_day = 0 \/ tv.null THEN "raise"
             ELSE LET days_past_month_end ==
                          (prev_reentry_day + tv.val) - days_in_prev_month
                  IN  IF days_past_month_end > 0 /\ col_day <= days_past_month_end
                      THEN "hit"
                      ELSE PrevRecoveryScan(ps, i + 1, tv, col_day, days_in_prev_month)

\* a day item of the re-entry table; an EVENT item carries reentry_id
ReentryCell(state, count, reentry_id, color) ==
    [state |-> state, count |-> count, reentry_id |-> reentry_id, color |-> color]

ReentryNoCell == ReentryCell("NONE", 0, 0, "")
ReentryRaiseCell == ReentryCell("RAISE", 0, 0, "")

ReentryDayCell(row, col_day, year, month) ==
    LET rs == row.reentries
        bad == \E i \in 1..Len(rs) : strptime_day(rs[i].reentry_date) = 0
        day_reentries == SelectSeq(rs, LAMBDA r : strptime_day(r.reentry_date) = col_day)
        zone_turnaround == row.turnaround_days
        own == RecoveryScan(rs, 1, zone_turnaround, col_day)
        prev == PrevMonthOf(year, month)
        spill == IF own # "miss" \/ ZoneRowGetPrev(row) = <<>> THEN "miss"
                 ELSE PrevRecoveryScan(ZoneRowGetPrev(row), 1, zone_turnaround, col_day,
                                       monthrange(prev[1], prev[2]))
    IN  IF bad THEN ReentryRaiseCell
        ELSE IF day_reentries # <<>>
             THEN ReentryCell("EVENT", Len(day_reentries), day_reentries[1].reentry_id,
                              day_reentries[1].status_color)
        ELSE IF own = "raise" \/ spill = "raise" THEN ReentryRaiseCell
        ELSE IF own = "hit" \/ spill = "hit" THEN ReentryCell("RECOVERY", 0, 0, "#C8C8C8")
        ELSE ReentryCell("IDLE", 0, 0, "#FFFFFF")

ReentryRowCells(row, days_in_month, year, month) ==
    IF row.type = "group" THEN <<>>
    ELSE LET full == [d \in 1..days_in_month |-> ReentryDayCell(row, d, year, month)]
             stop == IF \E d \in 1..days_in_month : full[d].state = "RAISE"
                     THEN CHOOSE d \in 1..days_in_month :
                              /\ full[d].state = "RAISE"
                              /\ \A e \in 1..(d - 1) : full[e].state # "RAISE"
                     ELSE days_in_month + 1
         IN  [d \in 1..days_in_month |-> IF d < stop THEN full[d] ELSE ReentryNoCell]

ReentryRowRaises(row, days_in_month, year, month) ==
    /\ row.type = "zone"
    /\ \E d \in 1..days_in_month : ReentryDayCell(row, d, year, month).state = "RAISE"

\* what the table widget shows of a row (the row dict without its re-entry list)
ReentryShown(row) ==
    IF row.type = "group" THEN row
    ELSE [type |-> "zone", country |-> row.country, location |-> row.location,
          drop_zone |-> row.drop_zone, site_id |-> row.site_id,
          turnaround_days |-> row.turnaround_days]

ReentryRaisedAt(rows, days_in_month, year, month) ==
    LET raising == { r \in 1..Len(rows) :
                       ReentryRowRaises(rows[r], days_in_month, year, month) }
    IN  IF raising = {} THEN 0
        ELSE CHOOSE r \in raising : \A q \in raising : r <= q

ReentryRenderRows(rows, days_in_month, year, month, raised_at) ==
    [rows |-> [r \in 1..Len(rows) |-> ReentryShown(rows[r])],
     cells |-> [r \in 1..Len(rows) |->
                  IF raised_at = 0 \/ r <= raised_at
                  THEN ReentryRowCells(rows[r], days_in_month, year, month)
                  ELSE IF rows[r].type = "group" THEN <<>>
                  ELSE [d \in 1..days_in_month |-> ReentryNoCell]],
     days |-> days_in_month,
     raised_at |-> raised_at]

ReentryRenderTable(rows, days_in_month, year, month) ==
    ReentryRenderRows(rows, days_in_month, year, month,
                      ReentryRaisedAt(rows, days_in_month, year, month))

\* ReentryTimelineView.update_timeline
reentry_update_timeline(zones, extra, rows_db, year, month, active, expanded, initial) ==
    LET month_reentries == get_reentries_by_month(zones, rows_db, year, month)
        all_sites == get_all_sites_reentry(zones)
        expanded2 == ReentryExpandedAfter(extra, all_sites, month_reentries, active,
                                          expanded, initial)
        countries == SortStrings({ ZoneCountry(all_sites[k].country) :
                                      k \in 1..Len(all_sites) })
    IN  [expanded_groups |-> expanded2,
         table |-> ReentryRenderTable(
                       ReentryBuildRows(countries, 1, extra, all_sites, month_reentries,
                                        active, expanded2),
                       monthrange(year, month), year, month)]

\* ReentryTimelineView.cell_clicked on a group item: the expand set after the click
ReentryToggled(expanded, country) ==
    IF country \in expanded THEN expanded \ {country} ELSE expanded \cup {country}

\* ReentryTimelineView.previous_month: the cursor after the step
ReentryPrevCursor(year, month) ==
    IF month - 1 < 1 THEN <<year - 1, 12>> ELSE <<year, month - 1>>

\* ReentryTimelineView.next_month: the cursor after the step
ReentryNextCursor(year, month) ==
    IF month + 1 > 12 THEN <<year + 1, 1>> ELSE <<year, month + 1>>

-----------------------------------------------------------------------------
(* Initial states                                                          *)

\* countries SiteEditorDialog stores for a site: text.strip() or None
EditorCountries(id) == IF id = 2 THEN {"US", NULL} ELSE {"US"}

\* countries the launch editor's quick site form stores: the text as typed
QuickCountries(id) == IF id = 2 THEN {""} ELSE {}

\* QSpinBox values the site editor may submit (range 1..90)
SpinValues == {3}

SiteRecord(id, country) ==
    [site_id |-> id, location |-> SiteKey(id)[1], launch_pad |-> SiteKey(id)[2],
     country |-> country]

LaunchRecord(date, site_id, color) ==
    [launch_date |-> date, site_id |-> site_id, status_color |-> color]

\* result before SyncWorker.run has assigned it
NoResult == [added |-> -1, updated |-> -1, errors |-> <<>>]

\* TimelineView.__init__ up to the call of init_ui; no SyncWorker exists; the drop
\* zone view shows the empty reentry_sites table of a fresh database
ViewInit ==
    /\ current_year = StartMonth[1]
    /\ current_month = StartMonth[2]
    /\ show_only_active = TRUE
    /\ expanded_groups = {}
    /\ initial_load = TRUE
    /\ timeline_table = EmptyTable
    /\ table_current = FALSE
    /\ pc = "new"
    /\ launch_selected = 0
    /\ sync_pc = "idle"
    /\ sync_type = "upcoming"
    /\ sync_result = NoResult
    /\ finished_emits = <<>>
    /\ finished_queue = <<>>
    /\ reentry_sites = {}
    /\ zones_table = <<>>
    /\ zone_current_row = -1
    /\ zone_message = ""

\* a fresh database file: init_database creates empty tables
Init ==
    /\ launch_sites = {}
    /\ site_extra = [id \in 1..(MaxSites + 1) |-> NoEntry]
    /\ saved_turnaround = [id \in 1..(MaxSites + 1) |-> 0]
    /\ launches = <<>>
    /\ ViewInit

\* any store contents the db interface can hold and return
StoreInit ==
    /\ \E n \in 1..MaxSites :
         launch_sites = { SiteRecord(id, IF id = 1 THEN "US" ELSE "") : id \in 1..n }
    /\ site_extra \in [1..(MaxSites + 1) -> SuppliedEntries]
    /\ \A id \in 1..(MaxSites + 1) :
          id \notin { s.site_id : s \in launch_sites } \/ id > 1 => site_extra[id] = NoEntry
    /\ saved_turnaround = [id \in 1..(MaxSites + 1) |-> 0]
    /\ \E n \in 0..MaxLaunches :
         \E ds \in [1..n -> ForeignDates] :
           \E ss \in [1..n -> {NoSite, 1}] :
              /\ \A i \in 1..n : ss[i] = NoSite => ds[i] \in OrphanDates
              /\ launches = [i \in 1..n |-> LaunchRecord(ds[i], ss[i], "#FFFF00")]
    /\ ViewInit

-----------------------------------------------------------------------------
(* TimelineView operations                                                 *)

\* variant: every call auto-expands as the first one does
Relayout_reexpand(year, month, active, expanded) ==
    LET r == update_timeline(launch_sites, site_extra, launches, year, month, active,
                             expanded, TRUE)
    IN  /\ expanded_groups' = r.expanded_groups
        /\ initial_load' = FALSE
        /\ timeline_table' = r.table
        /\ table_current' = TRUE

\* the assignments one update_timeline call makes
Relayout(year, month, active, expanded) ==
    LET r == update_timeline(launch_sites, site_extra, launches, year, month, active,
                             expanded, initial_load)
    IN  /\ expanded_groups' = r.expanded_groups
        /\ initial_load' = FALSE
        /\ timeline_table' = r.table
        /\ table_current' = TRUE

\* init_ui: the first update_timeline; an exception leaves __init__ and no view exists
init_ui ==
    /\ pc = "new"
    /\ UNCHANGED sync_vars
    /\ UNCHANGED zone_vars
    /\ UNCHANGED launch_selected
    /\ Relayout(current_year, current_month, show_only_active, expanded_groups)
    /\ pc' = IF timeline_table'.raised_at = 0 THEN "ready" ELSE "failed"
    /\ UNCHANGED <<current_year, current_month, show_only_active>>
    /\ UNCHANGED store_vars

\* the (year, month) previous_month moves the cursor to
PrevCursor(year, month) ==
    IF month - 1 < 1 THEN <<year - 1, 12>> ELSE <<year, month - 1>>

\* variant: month 12 wraps to 1 without the year being incremented
NextCursor_norollover(year, month) ==
    IF month + 1 > 12 THEN <<year, 1>> ELSE <<year, month + 1>>

\* the (year, month) next_month moves the cursor to
NextCursor(year, month) ==
    IF month + 1 > 12 THEN <<year + 1, 1>> ELSE <<year, month + 1>>

\* variant: month 1 wraps to 12 without the year being decremented
previous_month_norollover ==
    /\ pc = "ready"
    /\ UNCHANGED sync_vars
    /\ UNCHANGED zone_vars
    /\ UNCHANGED launch_selected
    /\ <<current_year, current_month>> # NavFirst
    /\ current_month' = IF current_month - 1 < 1 THEN 12 ELSE current_month - 1
    /\ current_year' = current_year
    /\ Relayout(current_year', current_month', show_only_active, expanded_groups)
    /\ UNCHANGED <<show_only_active, pc>>
    /\ UNCHANGED store_vars

previous_month ==
    /\ pc = "ready"
    /\ UNCHANGED sync_vars
    /\ UNCHANGED zone_vars
    /\ UNCHANGED launch_selected
    /\ <<current_year, current_month>> # NavFirst
    /\ current_month' = PrevCursor(current_year, current_month)[2]
    /\ current_year' = PrevCursor(current_year, current_month)[1]
    /\ Relayout(current_year', current_month', show_only_active, expanded_groups)
    /\ UNCHANGED <<show_only_active, pc>>
    /\ UNCHANGED store_vars

next_month ==
    /\ pc = "ready"
    /\ UNCHANGED sync_vars
    /\ UNCHANGED zone_vars
    /\ UNCHANGED launch_selected
    /\ <<current_year, current_month>> # NavLast
    /\ current_month' = NextCursor(current_year, current_month)[2]
    /\ current_year' = NextCursor(current_year, current_month)[1]
    /\ Relayout(current_year', current_month', show_only_active, expanded_groups)
    /\ UNCHANGED <<show_only_active, pc>>
    /\ UNCHANGED store_vars

\* stateChanged fires when the check box flips: state is 2 (Checked) or 0 (Unchecked)
toggle_active_only ==
    /\ pc = "ready"
    /\ UNCHANGED sync_vars
    /\ UNCHANGED zone_vars
    /\ UNCHANGED launch_selected
    /\ \E state \in {0, 2} :
         /\ (state = 2) # show_only_active
         /\ show_only_active' = (state = 2)
    /\ Relayout(current_year, current_month, show_only_active', expanded_groups)
    /\ UNCHANGED <<current_year, current_month, pc>>
    /\ UNCHANGED store_vars

\* variant: expanding a country collapses all others
cell_clicked_group_accordion ==
    /\ pc = "ready"
    /\ UNCHANGED sync_vars
    /\ UNCHANGED zone_vars
    /\ UNCHANGED launch_selected
    /\ \E row \in 1..Len(timeline_table.rows) :
         /\ timeline_table.rows[row].type = "group"
         /\ LET country == timeline_table.rows[row].country
                toggled == IF country \in expanded_groups
                           THEN expanded_groups \ {country}
                           ELSE {country}
            IN  Relayout(current_year, current_month, show_only_active, toggled)
    /\ UNCHANGED <<current_year, current_month, show_only_active, pc>>
    /\ UNCHANGED store_vars

\* variant: the relayout after a header click switches the filter off
cell_clicked_group_unfilter ==
    /\ pc = "ready"
    /\ UNCHANGED sync_vars
    /\ UNCHANGED zone_vars
    /\ UNCHANGED launch_selected
    /\ \E row \in 1..Len(timeline_table.rows) :
         /\ timeline_table.rows[row].type = "group"
         /\ timeline_table.raised_at = 0 \/ row <= timeline_table.raised_at
         /\ LET country == timeline_table.rows[row].country
                toggled == IF country \in expanded_groups
                           THEN expanded_groups \ {country}
                           ELSE expanded_groups \cup {country}
            IN  Relayout(current_year, current_month, FALSE, toggled)
    /\ show_only_active' = FALSE
    /\ UNCHANGED <<current_year, current_month, pc>>
    /\ UNCHANGED store_vars

\* cell_clicked on a rendered group-header row
cell_clicked_group ==
    /\ pc = "ready"
    /\ UNCHANGED sync_vars
    /\ UNCHANGED zone_vars
    /\ UNCHANGED launch_selected
    /\ \E row \in 1..Len(timeline_table.rows) :
         /\ timeline_table.rows[row].type = "group"
         /\ timeline_table.raised_at = 0 \/ row <= timeline_table.raised_at
         /\ LET country == timeline_table.rows[row].country
                toggled == IF country \in expanded_groups
                           THEN expanded_groups \ {country}
                           ELSE expanded_groups \cup {country}
            IN  Relayout(current_year, current_month, show_only_active, toggled)
    /\ UNCHANGED <<current_year, current_month, show_only_active, pc>>
    /\ UNCHANGED store_vars

\* cell_clicked on an EVENT item: launch_selected.emit(data['launch_id'])
cell_clicked_launch ==
    /\ pc = "ready"
    /\ UNCHANGED sync_vars
    /\ UNCHANGED zone_vars
    /\ \E row \in 1..Len(timeline_table.rows), col_day \in 1..timeline_table.days :
         /\ timeline_table.rows[row].type = "site"
         /\ timeline_table.cells[row][col_day].state = "EVENT"
         /\ launch_selected' = timeline_table.cells[row][col_day].launch_id
    /\ pc' = "emit"
    /\ UNCHANGED <<current_year, current_month, show_only_active, expanded_groups,
                   initial_load, timeline_table, table_current>>
    /\ UNCHANGED store_vars

\* MainWindow.edit_launch, the slot of launch_selected: the editor dialog is opened
\* for the launch and closed without saving
edit_launch ==
    /\ pc = "emit"
    /\ UNCHANGED sync_vars
    /\ UNCHANGED zone_vars
    /\ pc' = "ready"
    /\ launch_selected' = 0
    /\ UNCHANGED <<current_year, current_month, show_only_active, expanded_groups,
                   initial_load, timeline_table, table_current>>
    /\ UNCHANGED store_vars

-----------------------------------------------------------------------------
(* Editors writing the store.  Records are entered before the timeline is  *)
(* constructed: the database file persists between sessions.               *)

SiteIdsInUse == { s.site_id : s \in launch_sites }

\* sites picked in the launch editor's site combo
LaunchPadIds == {1, 2}

\* <<date, status colour>> the launch editor is filled in with for a site
EditorForms(site_id) ==
    IF site_id = 1
    THEN (EditorDates \X {"#FFFF00"}) \cup {<<Date("iso", 2024, 1, 10), "#00FF00">>}
    ELSE {<<Date("iso", 2024, 1, 10), "#FFFF00">>}

\* SiteEditorDialog.save_site without site_id -> LaunchDatabase.add_site;
\* LaunchSitesView.add_site then calls refresh_all, which raises on its first line
\* (LaunchDatabase has no update_all_pad_turnarounds_from_history) before any view
\* is refreshed
save_site_add ==
    /\ pc = "new"
    /\ UNCHANGED sync_vars
    /\ UNCHANGED zone_vars
    /\ UNCHANGED launch_selected
    /\ Cardinality(launch_sites) < MaxSites
    /\ LET id == Cardinality(launch_sites) + 1
       IN  \E country \in EditorCountries(id), w \in SpinValues :
             /\ launch_sites' = launch_sites \cup {SiteRecord(id, country)}
             /\ saved_turnaround' = [saved_turnaround EXCEPT ![id] = w]
    /\ table_current' = FALSE
    /\ UNCHANGED <<site_extra, launches, current_year, current_month, show_only_active,
                   expanded_groups, initial_load, timeline_table, pc>>

\* SiteEditorDialog.save_site with site_id -> LaunchDatabase.update_site
save_site_update ==
    /\ pc = "new"
    /\ UNCHANGED sync_vars
    /\ UNCHANGED zone_vars
    /\ UNCHANGED launch_selected
    /\ \E s \in launch_sites, w \in SpinValues :
       \E country \in EditorCountries(s.site_id) :
         /\ launch_sites' = (launch_sites \ {s}) \cup {SiteRecord(s.site_id, country)}
         /\ saved_turnaround' = [saved_turnaround EXCEPT ![s.site_id] = w]
    /\ table_current' = (table_current /\ launch_sites' = launch_sites)
    /\ UNCHANGED <<site_extra, launches, current_year, current_month, show_only_active,
                   expanded_groups, initial_load, timeline_table, pc>>

\* LaunchEditorDialog.add_new_site -> LaunchDatabase.add_site (country as typed, no
\* turnaround_days in site_data)
add_new_site ==
    /\ pc = "new"
    /\ UNCHANGED sync_vars
    /\ UNCHANGED zone_vars
    /\ UNCHANGED launch_selected
    /\ Cardinality(launch_sites) < MaxSites
    /\ \E country \in QuickCountries(Cardinality(launch_sites) + 1) :
         launch_sites' = launch_sites
                         \cup {SiteRecord(Cardinality(launch_sites) + 1, country)}
    /\ table_current' = FALSE
    /\ UNCHANGED <<site_extra, saved_turnaround, launches, current_year, current_month,
                   show_only_active, expanded_groups, initial_load, timeline_table, pc>>

\* LaunchEditorDialog.save_launch -> LaunchDatabase.add_launch: the date is
\* QDate.toString('yyyy-MM-dd'), a site is required
save_launch ==
    /\ pc = "new"
    /\ UNCHANGED sync_vars
    /\ UNCHANGED zone_vars
    /\ UNCHANGED launch_selected
    /\ Len(launches) < MaxLaunches
    /\ \E site_id \in SiteIdsInUse \cap LaunchPadIds :
       \E form \in EditorForms(site_id) :
         /\ form[1] \in EditorDates /\ form[2] \in Colors
         /\ launches' = Append(launches, LaunchRecord(form[1], site_id, form[2]))
    /\ table_current' = FALSE
    /\ UNCHANGED <<launch_sites, site_extra, saved_turnaround, current_year,
                   current_month, show_only_active, expanded_groups, initial_load,
                   timeline_table, pc>>

-----------------------------------------------------------------------------
(* Background sync: MainWindow.start_sync, SyncWorker.run on its own       *)
(* thread, and the slot sync_finished on the GUI thread.  The worker has   *)
(* db_path, sync_type and limit only; SpaceDevsAPI is not part of these    *)
(* sources, a call of it is an input: it returns a result dict or raises.  *)

\* sync_type values: the three the menu handlers pass, and one run does not know
SyncTypes == {"upcoming", "previous", "rockets", "history"}

\* {'added': 0, 'updated': 0, 'errors': []}
ZeroResult == [added |-> 0, updated |-> 0, errors |-> <<>>]

\* {'added': 0, 'updated': 0, 'errors': [str(e)]}
ErrorResult(text) == [added |-> 0, updated |-> 0, errors |-> <<text>>]

\* str(e) of the exception raised while opening the database, inside the API call,
\* and while closing the database
ExcText(stage) ==
    IF stage = "open" THEN "unable to open database file"
    ELSE IF stage = "api" THEN "connection timed out"
    ELSE "cannot close database"

\* what a sync call returns: launches merged into the store, or rocket rows updated
ApiResult(type, added) ==
    IF type = "rockets" THEN [added |-> 0, updated |-> 1, errors |-> <<>>]
    ELSE [added |-> added, updated |-> 0, errors |-> <<>>]

\* the launch an 'upcoming' or 'previous' sync merges into the store
SyncedLaunch == LaunchRecord(Date("iso", 2024, 1, 12), 2, "#FFFF00")

\* self.finished.emit(payload): the connection to MainWindow.sync_finished crosses
\* threads, so the call is posted to the GUI thread's event queue
Emit(payload) ==
    /\ finished_emits' = Append(finished_emits, payload)
    /\ finished_queue' = Append(finished_queue, payload)

\* the except branch of run
EmitError(stage) ==
    /\ Emit(ErrorResult(ExcText(stage)))
    /\ sync_pc' = "returned"

\* start_sync, entered from a menu handler while no worker is running
start_sync(type) ==
    /\ UNCHANGED zone_vars
    /\ pc = "ready"
    /\ sync_pc \in {"idle", "returned"}
    /\ finished_queue = <<>>
    /\ sync_pc' = "open"
    /\ sync_type' = type
    /\ sync_result' = NoResult
    /\ finished_emits' = <<>>
    /\ UNCHANGED finished_queue
    /\ UNCHANGED <<view_vars, table_current>>
    /\ UNCHANGED store_vars

\* run: db = LaunchDatabase(self.db_path); api = SpaceDevsAPI(db)
run_open ==
    /\ UNCHANGED zone_vars
    /\ sync_pc = "open"
    /\ pc # "aborted"
    /\ \/ /\ sync_pc' = "api"
          /\ UNCHANGED <<finished_emits, finished_queue>>
       \/ EmitError("open")
    /\ UNCHANGED <<sync_type, sync_result>>
    /\ UNCHANGED <<view_vars, table_current>>
    /\ UNCHANGED store_vars

\* variant: the worker thread expands the country of the launch it merged
run_api_expand ==
    /\ UNCHANGED zone_vars
    /\ sync_pc = "api"
    /\ pc # "aborted"
    /\ sync_type \in {"upcoming", "previous"}
    /\ Len(launches) < MaxLaunches
    /\ launches' = Append(launches, SyncedLaunch)
    /\ table_current' = FALSE
    /\ sync_result' = ApiResult(sync_type, 1)
    /\ sync_pc' = "close"
    /\ expanded_groups' = expanded_groups \cup {"Other"}
    /\ UNCHANGED <<finished_emits, finished_queue, sync_type>>
    /\ UNCHANGED <<current_year, current_month, show_only_active, initial_load,
                   timeline_table, pc, launch_selected>>
    /\ UNCHANGED <<launch_sites, site_extra, saved_turnaround>>

\* run: the if / elif chain on sync_type
run_api ==
    /\ UNCHANGED zone_vars
    /\ sync_pc = "api"
    /\ pc # "aborted"
    /\ \/ /\ sync_type \in {"upcoming", "previous"}
          /\ Len(launches) < MaxLaunches
          /\ launches' = Append(launches, SyncedLaunch)
          /\ table_current' = FALSE
          /\ sync_result' = ApiResult(sync_type, 1)
          /\ sync_pc' = "close"
          /\ UNCHANGED <<finished_emits, finished_queue>>
       \/ /\ sync_type \in {"upcoming", "previous", "rockets"}
          /\ sync_result' = ApiResult(sync_type, 0)
          /\ sync_pc' = "close"
          /\ UNCHANGED <<launches, table_current, finished_emits, finished_queue>>
       \/ /\ sync_type \in {"upcoming", "previous", "rockets"}
          /\ EmitError("api")
          /\ UNCHANGED <<launches, table_current, sync_result>>
       \/ /\ sync_type \notin {"upcoming", "previous", "rockets"}
          /\ sync_result' = ZeroResult
          /\ sync_pc' = "close"
          /\ UNCHANGED <<launches, table_current, finished_emits, finished_queue>>
    /\ UNCHANGED sync_type
    /\ UNCHANGED view_vars
    /\ UNCHANGED <<launch_sites, site_extra, saved_turnaround>>

\* variant: the result is emitted before db.close(), whose exception is then
\* answered with a second emit
run_close_emitfirst ==
    /\ UNCHANGED zone_vars
    /\ sync_pc = "close"
    /\ pc # "aborted"
    /\ \/ Emit(sync_result)
       \/ /\ finished_emits' = finished_emits \o <<sync_result, ErrorResult(ExcText("close"))>>
          /\ finished_queue' = finished_queue \o <<sync_result, ErrorResult(ExcText("close"))>>
    /\ sync_pc' = "returned"
    /\ UNCHANGED <<sync_type, sync_result>>
    /\ UNCHANGED <<view_vars, table_current>>
    /\ UNCHANGED store_vars

\* run: db.close(); self.finished.emit(result)
run_close ==
    /\ UNCHANGED zone_vars
    /\ sync_pc = "close"
    /\ pc # "aborted"
    /\ \/ /\ Emit(sync_result)
          /\ sync_pc' = "returned"
       \/ EmitError("close")
    /\ UNCHANGED <<sync_type, sync_result>>
    /\ UNCHANGED <<view_vars, table_current>>
    /\ UNCHANGED store_vars

\* sync_finished, delivered by the GUI thread's event loop (also by the loop of an
\* open editor dialog): its first statement is refresh_all(), which raises
\* AttributeError on its first line (LaunchDatabase has no
\* update_all_pad_turnarounds_from_history) before any view is refreshed.  The
\* exception leaves the slot: PyQt6 aborts the process unless the entry script,
\* which is not among these sources, installed an excepthook.
sync_finished ==
    /\ UNCHANGED zone_vars
    /\ pc \in {"ready", "emit"}
    /\ finished_queue # <<>>
    /\ finished_queue' = Tail(finished_queue)
    /\ pc' \in {pc, "aborted"}
    /\ UNCHANGED <<sync_pc, sync_type, sync_result, finished_emits>>
    /\ UNCHANGED <<current_year, current_month, show_only_active, expanded_groups,
                   initial_load, timeline_table, launch_selected, table_current>>
    /\ UNCHANGED store_vars

-----------------------------------------------------------------------------
(* DropZonesView (gui/drop_zones_view.py) and the site operations of       *)
(* LaunchDatabase it calls.                                                *)

\* (location, drop_zone) the zone editor is filled in with for the zone with this id
ZoneKey(id) ==
    IF id = 1 THEN <<"Pacific Ocean", "Zone A">>
    ELSE IF id = 2 THEN <<"Inner Mongolia", "LZ-1">>
    ELSE <<"Pacific Ocean", "LZ-1">>

\* countries ZoneEditorDialog stores: text.strip() or None
ZoneCountries == {"US", NULL}

ZoneRecord(id, country) ==
    [reentry_site_id |-> id, location |-> ZoneKey(id)[1], drop_zone |-> ZoneKey(id)[2],
     country |-> country]

\* parameters of LaunchDatabase.delete_site besides self
delete_site_params == {"site_id"}

\* DELETE FROM launch_sites WHERE site_id = ?
delete_site(sites, site_id) == { x \in sites : x.site_id # site_id }

\* LaunchSitesView.delete_site confirmed for the row of a launch site:
\* delete_site(site_id) deletes the row, refresh_table; refresh_all then raises
\* inside the try block
delete_launch_site(site_id) ==
    /\ \E x \in launch_sites : x.site_id = site_id
    /\ launch_sites' = delete_site(launch_sites, site_id)
    /\ table_current' = FALSE
    /\ UNCHANGED zone_vars
    /\ UNCHANGED view_vars
    /\ UNCHANGED sync_vars
    /\ UNCHANGED <<site_extra, saved_turnaround, launches>>

\* DropZonesView.refresh_table
refresh_table(zones) == get_all_sites_reentry(zones)

\* add_zone: ZoneEditorDialog.save_zone -> add_site(zone_data, site_type='REENTRY'),
\* accepted; refresh_table; then refresh_all raises
save_zone_add ==
    /\ Cardinality(reentry_sites) < MaxSites
    /\ \E country \in ZoneCountries :
         reentry_sites' = reentry_sites
                          \cup {ZoneRecord(Cardinality(reentry_sites) + 1, country)}
    /\ zones_table' = refresh_table(reentry_sites')
    /\ zone_message' = "Success"
    /\ UNCHANGED zone_current_row
    /\ UNCHANGED <<view_vars, table_current>>
    /\ UNCHANGED sync_vars
    /\ UNCHANGED store_vars

\* edit_zone: ZoneEditorDialog.save_zone -> update_site(zone_id, zone_data) with
\* site_type 'REENTRY', accepted; refresh_table; then refresh_all raises
save_zone_update ==
    /\ zone_current_row >= 0
    /\ LET zone_id == zones_table[zone_current_row + 1].site_id
       IN  \E country \in ZoneCountries :
             reentry_sites' = { IF z.reentry_site_id = zone_id
                                THEN ZoneRecord(zone_id, country) ELSE z :
                                z \in reentry_sites }
    /\ zones_table' = refresh_table(reentry_sites')
    /\ zone_message' = "Success"
    /\ UNCHANGED zone_current_row
    /\ UNCHANGED <<view_vars, table_current>>
    /\ UNCHANGED sync_vars
    /\ UNCHANGED store_vars

\* the user selects a row of the table
select_zone(row) ==
    /\ row \in 0..(Len(zones_table) - 1)
    /\ zone_current_row' = row
    /\ UNCHANGED <<reentry_sites, zones_table, zone_message>>
    /\ UNCHANGED <<view_vars, table_current>>
    /\ UNCHANGED sync_vars
    /\ UNCHANGED store_vars

\* delete_zone, reply being the button of the confirmation box.  The call
\* delete_site(zone_id, site_type='REENTRY') passes a keyword delete_site does not
\* have: TypeError, caught by the except branch, which shows the error box; the
\* statements after the call (refresh_table, refresh_all, the success box) are
\* skipped
delete_zone(reply) ==
    /\ IF zone_current_row < 0
       THEN /\ zone_message' = "No Selection"
            /\ UNCHANGED <<reentry_sites, zones_table, launch_sites>>
       ELSE IF reply # "Yes"
       THEN /\ zone_message' = "Confirm Delete"
            /\ UNCHANGED <<reentry_sites, zones_table, launch_sites>>
       ELSE IF "site_type" \in delete_site_params
       THEN /\ launch_sites' =
                  delete_site(launch_sites, zones_table[zone_current_row + 1].site_id)
            /\ zones_table' = refresh_table(reentry_sites)
            /\ zone_message' = "Error"
            /\ UNCHANGED reentry_sites
       ELSE /\ zone_message' = "Error"
            /\ UNCHANGED <<reentry_sites, zones_table, launch_sites>>
    /\ UNCHANGED zone_current_row
    /\ UNCHANGED <<view_vars, table_current>>
    /\ UNCHANGED sync_vars
    /\ UNCHANGED <<site_extra, saved_turnaround, launches>>

-----------------------------------------------------------------------------
(* Specifications                                                          *)

ViewNext ==
    \/ init_ui
    \/ previous_month
    \/ next_month
    \/ toggle_active_only
    \/ cell_clicked_group
    \/ cell_clicked_launch
    \/ edit_launch

Next ==
    \/ ViewNext
    \/ save_site_add
    \/ save_site_update
    \/ add_new_site
    \/ save_launch

Spec == Init /\ [][Next]_vars

StoreSpec == StoreInit /\ [][ViewNext]_vars

\* steps of the worker thread
WorkerNext ==
    \/ run_open
    \/ run_api
    \/ run_close

\* the main window on a store with two pads and one launch
SyncInit ==
    /\ launch_sites = {SiteRecord(1, "US"), SiteRecord(2, "")}
    /\ site_extra = [id \in 1..(MaxSites + 1) |-> NoEntry]
    /\ saved_turnaround = [id \in 1..(MaxSites + 1) |-> 0]
    /\ launches = <<LaunchRecord(Date("iso", 2024, 1, 10), 1, "#FFFF00")>>
    /\ ViewInit

SyncNext ==
    \/ ViewNext
    \/ \E type \in SyncTypes : start_sync(type)
    \/ WorkerNext
    \/ sync_finished

SyncSpec == SyncInit /\ [][SyncNext]_vars

\* a started QThread is scheduled: run proceeds while it has a step to take
SyncLiveSpec == SyncSpec /\ WF_vars(WorkerNext)

\* the drop zone view on a fresh reentry_sites table, beside two launch sites
ZoneInit ==
    /\ launch_sites = {SiteRecord(1, "US"), SiteRecord(2, "US")}
    /\ site_extra = [id \in 1..(MaxSites + 1) |-> NoEntry]
    /\ saved_turnaround = [id \in 1..(MaxSites + 1) |-> 0]
    /\ launches = <<>>
    /\ ViewInit

ZoneNext ==
    \/ save_zone_add
    \/ save_zone_update
    \/ \E row \in 0..(MaxSites - 1) : select_zone(row)
    \/ \E reply \in {"Yes", "No"} : delete_zone(reply)
    \/ \E site_id \in {1, 2} : delete_launch_site(site_id)

ZoneSpec == ZoneInit /\ [][ZoneNext]_vars

-----------------------------------------------------------------------------
(* What the claims are stated over                                         *)

Gray == "#C8C8C8"
White == "#FFFFFF"

\* how a rendered day item reads: an EVENT item carries the count and a launch id,
\* a RECOVERY item is gray without data, an IDLE item is white without data
Shows(c, state) ==
    IF state = "EVENT" THEN c.state = "EVENT" /\ c.count >= 1 /\ c.launch_id >= 1
    ELSE IF state = "RECOVERY" THEN c.state = "RECOVERY" /\ c.count = 0 /\ c.color = Gray
    ELSE c.state = "IDLE" /\ c.count = 0 /\ c.color = White

PadRows == { r \in 1..Len(timeline_table.rows) : timeline_table.rows[r].type = "site" }

Days == 1..timeline_table.days

CellAt(r, d) == timeline_table.cells[r][d]

Window(r) == timeline_table.rows[r].turnaround_days.val

\* calendar days of the store's events of (year, month) on the pad of row r
EventDaysIn(r, year, month) ==
    LET ls == get_launches_by_month(launch_sites, launches, year, month)
    IN  { ls[k].launch_date.d : k \in { j \in 1..Len(ls) :
                /\ ls[j].location = timeline_table.rows[r].location
                /\ ls[j].launch_pad = timeline_table.rows[r].pad } }

EventDays(r) == EventDaysIn(r, current_year, current_month)

PrevEventDays(r) ==
    EventDaysIn(r, PrevMonthOf(current_year, current_month)[1],
                PrevMonthOf(current_year, current_month)[2])

DaysInPrevMonth ==
    monthrange(PrevMonthOf(current_year, current_month)[1],
               PrevMonthOf(current_year, current_month)[2])

InOwnWindow(r, d) == \E e \in EventDays(r) : e < d /\ d <= e + Window(r)

InSpill(r, d) == \E p \in PrevEventDays(r) : d <= (p + Window(r)) - DaysInPrevMonth

-----------------------------------------------------------------------------
(* C1 - previous-month spill: on a displayed pad with window w and a       *)
(* previous-month event on day e (previous month of P days), every day     *)
(* d <= (e + w) - P without an event of its own is RECOVERY.               *)
C1_PrevMonthSpill ==
    table_current =>
        \A r \in PadRows : \A d \in Days :
            (InSpill(r, d) /\ d \notin EventDays(r)) => Shows(CellAt(r, d), "RECOVERY")

(* C2 - on a displayed pad with window w and a current-month event on day  *)
(* e, every day d with e < d <= min(e + w, days_in_month) is RECOVERY,     *)
(* or EVENT when the pad has an event of its own on d.                     *)
C2_RecoveryWindow ==
    table_current =>
        \A r \in PadRows : \A d \in Days :
            InOwnWindow(r, d) =>
                IF d \in EventDays(r) THEN Shows(CellAt(r, d), "EVENT")
                ELSE Shows(CellAt(r, d), "RECOVERY")

\* a displayed pad whose window is cut off by the end of the month, and one whose
\* window ends inside the month
C2_Witness ==
    /\ table_current
    /\ \E r \in PadRows : \E e \in EventDays(r) :
          /\ e + Window(r) > timeline_table.days
          /\ Shows(CellAt(r, timeline_table.days), "RECOVERY")

(* C3 - after an update_timeline call every pad row has one day cell for   *)
(* each day 1..days_in_month and each cell is in exactly one of EVENT,     *)
(* RECOVERY, IDLE.                                                         *)
C3_OneStatePerCell ==
    pc = "ready" =>
        \A r \in PadRows :
            /\ DOMAIN timeline_table.cells[r] = 1..monthrange(current_year, current_month)
            /\ \A d \in DOMAIN timeline_table.cells[r] :
                  Cardinality({ st \in {"EVENT", "RECOVERY", "IDLE"} :
                                   Shows(CellAt(r, d), st) }) = 1

C3_Witness ==
    /\ pc = "ready"
    /\ \E r \in PadRows :
          /\ \E d \in Days : Shows(CellAt(r, d), "EVENT")
          /\ \E d \in Days : Shows(CellAt(r, d), "RECOVERY")
          /\ \E d \in Days : Shows(CellAt(r, d), "IDLE")

(* C4 - an event on day e never makes a day d <= e of the same month       *)
(* RECOVERY: a RECOVERY cell on day d always has an event strictly before  *)
(* d whose window reaches d (or a previous-month window that reaches d).   *)
C4_NoRecoveryBeforeEvent ==
    table_current =>
        \A r \in PadRows : \A d \in Days :
            Shows(CellAt(r, d), "RECOVERY") => (InOwnWindow(r, d) \/ InSpill(r, d))

\* a pad whose only events are on day e > 1: day e is EVENT, the window after it is
\* applied and no day before e is RECOVERY
C4_Witness ==
    /\ table_current
    /\ \E r \in PadRows : \E e \in EventDays(r) :
          /\ e > 1
          /\ EventDays(r) = {e}
          /\ PrevEventDays(r) = {}
          /\ Shows(CellAt(r, e + 1), "RECOVERY")
          /\ \A d \in 1..e : ~Shows(CellAt(r, d), "RECOVERY")

(* C5 - EVENT has priority: whenever a displayed pad has a current-month   *)
(* event on day d, the cell of d is EVENT, also inside another event's     *)
(* recovery window.                                                        *)
C5_EventPriority ==
    table_current =>
        \A r \in PadRows : \A d \in EventDays(r) : Shows(CellAt(r, d), "EVENT")

\* an event day lying inside the window of an earlier event of the same pad
C5_Witness ==
    /\ table_current
    /\ \E r \in PadRows : \E d \in EventDays(r) :
          /\ InOwnWindow(r, d)
          /\ Shows(CellAt(r, d), "EVENT")

(* C6 - the classification equals the reference rule for every pad and     *)
(* day: EVENT iff an event falls on the day, else RECOVERY iff a current-  *)
(* month or previous-month window covers the day, else IDLE.               *)
RefState(r, d) ==
    IF d \in EventDays(r) THEN "EVENT"
    ELSE IF InOwnWindow(r, d) \/ InSpill(r, d) THEN "RECOVERY"
    ELSE "IDLE"

C6_ReferenceRule ==
    table_current =>
        \A r \in PadRows : \A d \in Days : Shows(CellAt(r, d), RefState(r, d))

(* C7 - a malformed or unparsable event date makes update_timeline skip    *)
(* only that event: the layout completes and everything is classified as   *)
(* if the bad event were absent.                                           *)
WellFormed(l) == strptime_day(l.launch_date) # 0

\* rows and, per day cell, state and count
Classification(table) ==
    [rows |-> table.rows,
     cells |-> [r \in DOMAIN table.cells |->
                  [d \in DOMAIN table.cells[r] |->
                     <<table.cells[r][d].state, table.cells[r][d].count>>]]]

C7_SkipMalformedDate ==
    (table_current /\ \A id \in DOMAIN site_extra : site_extra[id] = NoEntry) =>
        /\ timeline_table.raised_at = 0
        /\ Classification(timeline_table) =
             Classification(update_timeline(launch_sites, site_extra,
                                SelectSeq(launches, WellFormed), current_year,
                                current_month, show_only_active, expanded_groups,
                                FALSE).table)

(* C8 - a pad whose recovery-window value is missing, null, zero or        *)
(* negative is laid out with a window of 7 days: update_timeline does not  *)
(* fail and classifies the pad's cells exactly as for window 7.            *)
Defaulted(extra) ==
    [id \in DOMAIN extra |->
        IF ~extra[id].present \/ extra[id].null \/ extra[id].val <= 0
        THEN IntEntry(7) ELSE extra[id]]

C9_SavedWindowUsed ==
    table_current =>
        \A r \in PadRows :
            LET id == timeline_table.rows[r].site_id
                w == IF saved_turnaround[id] # 0 THEN saved_turnaround[id] ELSE 7
            IN  /\ Window(r) = w
                /\ \A d \in Days :
                      (d \notin EventDays(r) /\ \E e \in EventDays(r) : e < d /\ d <= e + w)
                          => Shows(CellAt(r, d), "RECOVERY")

(* C10 - month navigation rolls over the year: previous_month from (Y, 1)  *)
(* gives (Y-1, 12), next_month from (Y, 12) gives (Y+1, 1), otherwise the  *)
(* month changes by exactly 1 and the year stays.                          *)
C10_Rollover ==
    [][ /\ previous_month =>
             IF current_month = 1
             THEN current_year' = current_year - 1 /\ current_month' = 12
             ELSE current_year' = current_year /\ current_month' = current_month - 1
        /\ next_month =>
             IF current_month = 12
             THEN current_year' = current_year + 1 /\ current_month' = 1
             ELSE current_year' = current_year /\ current_month' = current_month + 1
      ]_vars

\* the view was constructed in January (StartMonth) and now shows December of the
\* year before: previous_month has rolled the year over
C10_Witness ==
    /\ pc = "ready"
    /\ StartMonth[2] = 1
    /\ current_year = StartMonth[1] - 1
    /\ current_month = 12

\* countries with a pad that has an event of (year, month) in the store
CountriesWithEvents(year, month) ==
    { NormCountry(s.country) :
        s \in { t \in launch_sites :
                  \E i \in 1..Len(launches) :
                     /\ launches[i].site_id = t.site_id
                     /\ strftime_ym(launches[i].launch_date) = <<year, month>> } }

(* C11 - auto-expansion happens on the first layout only: the layout that  *)
(* clears initial_load adds exactly the countries having a pad with an     *)
(* event of the displayed month; afterwards initial_load stays false and   *)
(* no step other than a header click adds a country to expanded_groups.    *)
C11_AutoExpandOnce ==
    [][ /\ (initial_load /\ ~initial_load') =>
              expanded_groups' =
                  expanded_groups \cup CountriesWithEvents(current_year', current_month')
        /\ ~initial_load => ~initial_load'
        /\ ~initial_load => (expanded_groups' \subseteq expanded_groups \/ cell_clicked_group)
      ]_vars

\* after the first layout the view was moved to a month in which a country has
\* events that had none in the first month: the country is not expanded
C11_Witness ==
    /\ pc = "ready"
    /\ ~initial_load
    /\ <<current_year, current_month>> # StartMonth
    /\ \E c \in CountriesWithEvents(current_year, current_month) :
          /\ c \notin CountriesWithEvents(StartMonth[1], StartMonth[2])
          /\ c \notin expanded_groups

GroupRows(table) == { r \in 1..Len(table.rows) : table.rows[r].type = "group" }

(* C12 - expand/collapse state persists across re-layouts: previous_month, *)
(* next_month and toggle_active_only leave expanded_groups unchanged, and  *)
(* every header they lay out is drawn expanded iff its country is in it.   *)
C12_ExpandPersists ==
    [][ (previous_month \/ next_month \/ toggle_active_only) =>
            /\ expanded_groups' = expanded_groups
            /\ \A r \in GroupRows(timeline_table') :
                  timeline_table'.rows[r].expanded
                      = (timeline_table'.rows[r].country \in expanded_groups)
      ]_vars

\* a country that was auto-expanded in the first month and collapsed by the user is
\* laid out in another month, where it has events too, and is still collapsed
C12_Witness ==
    /\ pc = "ready"
    /\ <<current_year, current_month>> # StartMonth
    /\ \E r \in GroupRows(timeline_table) :
          /\ ~timeline_table.rows[r].expanded
          /\ timeline_table.rows[r].country \in CountriesWithEvents(StartMonth[1], StartMonth[2])
          /\ timeline_table.rows[r].country
                 \in CountriesWithEvents(current_year, current_month)

\* rows of the pads of a country in a table
CountryPadRows(table, c) ==
    { r \in 1..Len(table.rows) : table.rows[r].type = "site" /\ table.rows[r].country = c }

(* C13 - a click on a group-header row toggles exactly that country in     *)
(* expanded_groups (added if absent, removed if present), changes no other *)
(* country, and the re-layout shows the header with its pad rows when the  *)
(* country is now expanded and without them when it is now collapsed.      *)
C13_HeaderClickToggles ==
    [][ cell_clicked_group =>
          \E r \in GroupRows(timeline_table) :
             LET c == timeline_table.rows[r].country
             IN  /\ expanded_groups' = IF c \in expanded_groups
                                        THEN expanded_groups \ {c}
                                        ELSE expanded_groups \cup {c}
                 /\ \E q \in GroupRows(timeline_table') :
                       /\ timeline_table'.rows[q].country = c
                       /\ timeline_table'.rows[q].expanded = (c \in expanded_groups')
                 /\ (CountryPadRows(timeline_table', c) # {}) = (c \in expanded_groups')
      ]_vars

\* in the first month a country that the first layout expanded is shown collapsed:
\* its header was clicked
C13_Witness ==
    /\ pc = "ready"
    /\ <<current_year, current_month>> = StartMonth
    /\ \E r \in GroupRows(timeline_table) :
          /\ ~timeline_table.rows[r].expanded
          /\ timeline_table.rows[r].country
                 \in CountriesWithEvents(current_year, current_month)
          /\ CountryPadRows(timeline_table, timeline_table.rows[r].country) = {}

(* C14 - with the show-only-active filter on, a country none of whose     *)
(* pads has an event in the displayed month has no row at all, neither a   *)
(* header nor pad rows, also when it is in expanded_groups.                *)
C14_InactiveCountryOmitted ==
    (table_current /\ show_only_active) =>
        \A r \in 1..Len(timeline_table.rows) :
            timeline_table.rows[r].country
                \in CountriesWithEvents(current_year, current_month)

\* the filter is on and an expanded country with a pad, but without events in the
\* displayed month, has no row
C14_Witness ==
    /\ pc = "ready"
    /\ show_only_active
    /\ \E s \in launch_sites :
          /\ NormCountry(s.country) \in expanded_groups
          /\ NormCountry(s.country) \notin CountriesWithEvents(current_year, current_month)
          /\ \A r \in 1..Len(timeline_table.rows) :
                timeline_table.rows[r].country # NormCountry(s.country)

\* launch_ids of the store's events of the pad of row r on day d of the displayed month
EventsOn(r, d) ==
    { i \in 1..Len(launches) :
        /\ launches[i].site_id = timeline_table.rows[r].site_id
        /\ strftime_ym(launches[i].launch_date) = <<current_year, current_month>>
        /\ launches[i].launch_date.d = d }

RECURSIVE SumCounts(_, _)
SumCounts(r, d) == IF d = 0 THEN 0 ELSE CellAt(r, d).count + SumCounts(r, d - 1)

(* C15 - the count of an EVENT cell is the number of events of that pad on *)
(* that day of the displayed month (a day with events is EVENT, any other  *)
(* cell counts 0), and the counts of a pad row add up to the number of     *)
(* that pad's events in the month.                                         *)
C15_EventCount ==
    table_current =>
        \A r \in PadRows :
            /\ \A d \in Days :
                  /\ CellAt(r, d).count = Cardinality(EventsOn(r, d))
                  /\ Shows(CellAt(r, d), "EVENT") = (EventsOn(r, d) # {})
            /\ SumCounts(r, timeline_table.days)
                  = Cardinality(UNION { EventsOn(r, d) : d \in Days })

\* two events of one pad on one day, and the cell counts 2
C15_Witness ==
    /\ table_current
    /\ \E r \in PadRows : \E d \in Days :
          /\ Cardinality(EventsOn(r, d)) = 2
          /\ Shows(CellAt(r, d), "EVENT")
          /\ CellAt(r, d).count = 2

\* the first event of the pad of row r on day d in the order of the month query
FirstEvent(r, d) ==
    LET ls == get_launches_by_month(launch_sites, launches, current_year, current_month)
        on == { k \in 1..Len(ls) : ls[k].launch_id \in EventsOn(r, d) }
    IN  ls[CHOOSE k \in on : \A j \in on : k <= j]

EventCells ==
    { <<r, d>> \in PadRows \X Days : timeline_table.cells[r][d].state = "EVENT" }

(* C16 - the representative of an EVENT cell is the first event of that    *)
(* pad and day in the query order: the cell has that event's status color  *)
(* and a click on the cell emits that event's launch_id.                   *)
C16_Representative ==
    /\ [](table_current =>
            \A rd \in EventCells :
               /\ CellAt(rd[1], rd[2]).launch_id = FirstEvent(rd[1], rd[2]).launch_id
               /\ CellAt(rd[1], rd[2]).color = FirstEvent(rd[1], rd[2]).status_color)
    /\ [][ cell_clicked_launch =>
              \E rd \in EventCells :
                 launch_selected' = FirstEvent(rd[1], rd[2]).launch_id ]_vars

\* a day with two events of different status colors on one pad: the cell has the
\* color of the first and its id is being emitted
C16_Witness ==
    /\ pc = "emit"
    /\ \E rd \in EventCells :
          /\ \E i, j \in EventsOn(rd[1], rd[2]) :
                launches[i].status_color # launches[j].status_color
          /\ launch_selected = FirstEvent(rd[1], rd[2]).launch_id
          /\ CellAt(rd[1], rd[2]).color = launches[launch_selected].status_color

(* C17 - idempotence of the layout: a second update_timeline call on the  *)
(* same month, pads, events and filter flag, with the expand set the first *)
(* call left, produces the same rows and the same cell classifications,    *)
(* counts and colors, and leaves the expand set as it is.                  *)
C17_Idempotent ==
    (table_current /\ pc = "ready") =>
        LET again == update_timeline(launch_sites, site_extra, launches, current_year,
                                     current_month, show_only_active, expanded_groups,
                                     initial_load)
        IN  /\ again.table = timeline_table
            /\ again.expanded_groups = expanded_groups

\* the table of the first layout, in which a country was auto-expanded and its pad
\* row has EVENT and RECOVERY cells
C17_Witness ==
    /\ table_current /\ pc = "ready"
    /\ <<current_year, current_month>> = StartMonth
    /\ show_only_active
    /\ expanded_groups = CountriesWithEvents(current_year, current_month)
    /\ \E r \in PadRows :
          /\ \E d \in Days : Shows(CellAt(r, d), "EVENT")
          /\ \E d \in Days : Shows(CellAt(r, d), "RECOVERY")

\* the pads of country c that qualify for display, in the order of the pads input
QualifyingPads(c) ==
    SelectSeq(get_all_sites(launch_sites),
              LAMBDA s : /\ NormCountry(s.country) = c
                         /\ \/ ~show_only_active
                            \/ \E i \in 1..Len(launches) :
                                  /\ launches[i].site_id = s.site_id
                                  /\ strftime_ym(launches[i].launch_date)
                                        = <<current_year, current_month>>)

(* C18 - row order: the headers are those of the countries with a          *)
(* qualifying pad, in lexicographic order; an expanded country's header is *)
(* immediately followed by its qualifying pads in the order of the pads    *)
(* input, a collapsed country's header by no pad row.                      *)
C18_RowOrder ==
    table_current =>
        LET rows == timeline_table.rows
        IN  /\ Len(rows) > 0 => rows[1].type = "group"
            /\ { rows[r].country : r \in GroupRows(timeline_table) }
                  = { c \in { NormCountry(s.country) : s \in launch_sites } :
                        QualifyingPads(c) # <<>> }
            /\ \A r, q \in GroupRows(timeline_table) :
                  r < q => StrRank(rows[r].country) < StrRank(rows[q].country)
            /\ \A r \in GroupRows(timeline_table) :
                  LET c == rows[r].country
                      pads == QualifyingPads(c)
                      n == IF c \in expanded_groups THEN Len(pads) ELSE 0
                  IN  /\ rows[r].expanded = (c \in expanded_groups)
                      /\ r + n <= Len(rows)
                      /\ \A k \in 1..n :
                            /\ rows[r + k].type = "site"
                            /\ rows[r + k].country = c
                            /\ rows[r + k].site_id = pads[k].site_id
                      /\ r + n < Len(rows) => rows[r + n + 1].type = "group"

\* an expanded country with two qualifying pads: its header is followed by both
C18_Witness ==
    /\ table_current
    /\ \E r \in GroupRows(timeline_table) :
          /\ timeline_table.rows[r].expanded
          /\ Len(QualifyingPads(timeline_table.rows[r].country)) = 2
          /\ r + 2 <= Len(timeline_table.rows)
          /\ timeline_table.rows[r + 1].type = "site"
          /\ timeline_table.rows[r + 2].type = "site"

(* C19 - empty inputs are not an error: without pads update_timeline      *)
(* returns with an empty row sequence; with pads but no events it returns  *)
(* too, and with the filter off every country has its header and every     *)
(* cell of every displayed pad row is IDLE.                                *)
C19_EmptyInputs ==
    table_current =>
        /\ launch_sites = {} =>
              (timeline_table.raised_at = 0 /\ timeline_table.rows = <<>>)
        /\ launches = <<>> =>
              /\ timeline_table.raised_at = 0
              /\ show_only_active => timeline_table.rows = <<>>
              /\ ~show_only_active =>
                    /\ { timeline_table.rows[r].country : r \in GroupRows(timeline_table) }
                          = { NormCountry(s.country) : s \in launch_sites }
                    /\ \A r \in PadRows :
                          /\ DOMAIN timeline_table.cells[r] = Days
                          /\ \A d \in Days : Shows(CellAt(r, d), "IDLE")

\* pads but no events, the filter off and a country expanded by a header click: its
\* pad row is displayed
C19_Witness ==
    /\ table_current
    /\ launches = <<>>
    /\ ~show_only_active
    /\ PadRows # {}
    /\ \A r \in PadRows : \A d \in Days : Shows(CellAt(r, d), "IDLE")

\* event days of the pad of row r whose window covers day d
CoveringEvents(r, d) == { e \in EventDays(r) : e < d /\ d <= e + Window(r) }

(* C20 - overlapping recovery windows: a day without an event that lies    *)
(* in the windows of two or more events of the pad is RECOVERY, and its    *)
(* cell is the same as that of a day covered by one window (gray, no       *)
(* count, no event id).                                                    *)
C20_OverlapIsRecovery ==
    table_current =>
        \A r \in PadRows : \A d \in Days :
            (d \notin EventDays(r) /\ Cardinality(CoveringEvents(r, d)) >= 2) =>
                /\ Shows(CellAt(r, d), "RECOVERY")
                /\ CellAt(r, d).launch_id = 0
                /\ \A x \in Days :
                      (x \notin EventDays(r) /\ Cardinality(CoveringEvents(r, x)) = 1)
                          => CellAt(r, x) = CellAt(r, d)

\* a pad row with a day covered by two windows and a day covered by one
C20_Witness ==
    /\ table_current
    /\ \E r \in PadRows : \E d, x \in Days :
          /\ d \notin EventDays(r) /\ Cardinality(CoveringEvents(r, d)) = 2
          /\ x \notin EventDays(r) /\ Cardinality(CoveringEvents(r, x)) = 1
          /\ Shows(CellAt(r, d), "RECOVERY")

\* the header row a pad row is listed under: the nearest group row above it
HeaderOf(table, r) ==
    LET above == { g \in GroupRows(table) : g < r }
    IN  IF above = {} THEN 0 ELSE CHOOSE g \in above : \A h \in above : h <= g

\* pad rows of the table whose pad is stored with a null or an empty country
UnnamedCountryRows ==
    { r \in PadRows : \E s \in launch_sites :
          /\ s.site_id = timeline_table.rows[r].site_id
          /\ s.country \in {NULL, ""} }

(* C21 - a pad stored with a null or an empty country is listed under the  *)
(* header "Other", and no header row carries a null or an empty country    *)
(* name.                                                                   *)
C21_OtherBucket ==
    table_current =>
        /\ \A g \in GroupRows(timeline_table) :
              timeline_table.rows[g].country \notin {NULL, ""}
        /\ \A r \in UnnamedCountryRows :
              /\ timeline_table.rows[r].country = "Other"
              /\ HeaderOf(timeline_table, r) # 0
              /\ timeline_table.rows[HeaderOf(timeline_table, r)].country = "Other"

\* a pad saved with an empty country is displayed under the header "Other", next to
\* a named country
C21_Witness ==
    /\ table_current
    /\ \E r \in UnnamedCountryRows :
          /\ \E s \in launch_sites :
                s.site_id = timeline_table.rows[r].site_id /\ s.country = ""
          /\ timeline_table.rows[HeaderOf(timeline_table, r)].country = "Other"
    /\ \E g \in GroupRows(timeline_table) : timeline_table.rows[g].country = "US"

(* C22 - a relayout by itself (the first one in init_ui, or the one after   *)
(* a header click) leaves current_year, current_month and show_only_active *)
(* as they are; the cursor changes only in previous_month / next_month and *)
(* the flag only in toggle_active_only.                                     *)
C22_RelayoutFrame ==
    [][ /\ (<<current_year, current_month>>' # <<current_year, current_month>>)
              => (previous_month \/ next_month)
        /\ (show_only_active' # show_only_active) => toggle_active_only
        /\ (init_ui \/ cell_clicked_group)
              => UNCHANGED <<current_year, current_month, show_only_active>> ]_vars

\* after navigation away from the start month and with the filter still on, a header
\* click has collapsed a country that has events in the displayed month
C22_Witness ==
    /\ table_current
    /\ show_only_active
    /\ <<current_year, current_month>> # StartMonth
    /\ \E g \in GroupRows(timeline_table) :
          /\ ~timeline_table.rows[g].expanded
          /\ timeline_table.rows[g].country
                 \in CountriesWithEvents(StartMonth[1], StartMonth[2])

\* the Gregorian calendar, as a table of month lengths
CalendarDays(y, m) ==
    LET common == <<31, 28, 31, 30, 31, 30, 31, 31, 30, 31, 30, 31>>
        leap == IF y % 400 = 0 THEN TRUE ELSE IF y % 100 = 0 THEN FALSE ELSE y % 4 = 0
    IN  IF m = 2 /\ leap THEN 29 ELSE common[m]

\* years whose Februaries cover the leap rules: divisible by 100, by 400, by 4, by none
CalendarYears == {1900, 2000, 2023, 2024}

(* C24 - every pad row has exactly one day cell for each calendar day of   *)
(* the displayed month, d = 1..days_in_month(year, month), and none for    *)
(* any other d; the number of day columns follows the calendar (28, 29, 30 *)
(* or 31) after every navigation step.                                     *)
C24_DayCellsPerMonth ==
    /\ table_current =>
          /\ timeline_table.days = CalendarDays(current_year, current_month)
          /\ \A r \in PadRows :
                /\ DOMAIN timeline_table.cells[r]
                      = 1..CalendarDays(current_year, current_month)
                /\ \A d \in DOMAIN timeline_table.cells[r] :
                      timeline_table.cells[r][d].state \in {"EVENT", "RECOVERY", "IDLE"}
    /\ \A y \in CalendarYears : \A m \in 1..12 : monthrange(y, m) = CalendarDays(y, m)

\* after navigation from January to February of a leap year, a displayed pad has
\* 29 day cells
C24_Witness ==
    /\ table_current
    /\ <<current_year, current_month>> = <<2024, 2>>
    /\ StartMonth # <<2024, 2>>
    /\ \E r \in PadRows : DOMAIN timeline_table.cells[r] = 1..29

\* cursors the inverse law is evaluated on: every month of two consecutive years
CursorPool == {2023, 2024} \X (1..12)

(* C25 - navigation keeps current_month in 1..12, and previous_month and   *)
(* next_month are inverse: next_month after previous_month, and            *)
(* previous_month after next_month, give back the (year, month) the first  *)
(* step started from.                                                      *)
C25_NavInverse ==
    /\ [](/\ current_month \in 1..12
          /\ \A c \in CursorPool :
                /\ PrevCursor(c[1], c[2])[2] \in 1..12
                /\ NextCursor(c[1], c[2])[2] \in 1..12
                /\ NextCursor(PrevCursor(c[1], c[2])[1], PrevCursor(c[1], c[2])[2]) = c
                /\ PrevCursor(NextCursor(c[1], c[2])[1], NextCursor(c[1], c[2])[2]) = c)
    /\ [][ /\ previous_month
                => NextCursor(current_year', current_month')
                     = <<current_year, current_month>>
           /\ next_month
                => PrevCursor(current_year', current_month')
                     = <<current_year, current_month>> ]_vars

\* previous_month has taken the view across the year boundary, one next_month away
\* from the month it was constructed on
C25_Witness ==
    /\ table_current
    /\ <<current_year, current_month>> = <<StartMonth[1] - 1, 12>>
    /\ NextCursor(current_year, current_month) = StartMonth

\* the stored pad has an event in (year, month)
PadHasEvent(site_id, year, month) ==
    \E i \in 1..Len(launches) :
        /\ launches[i].site_id = site_id
        /\ strftime_ym(launches[i].launch_date) = <<year, month>>

(* C26 - with the show-only-active filter on, every displayed pad row has  *)
(* at least one EVENT cell, every header is that of a country with a pad   *)
(* that has an event in the displayed month, and a pad without an event in *)
(* the displayed month has no row, also when an event of the month before  *)
(* has a recovery window reaching into the displayed month.                *)
C26_ActiveOnlyRows ==
    (table_current /\ show_only_active) =>
        /\ \A r \in PadRows : \E d \in Days : Shows(CellAt(r, d), "EVENT")
        /\ \A g \in GroupRows(timeline_table) :
              \E s \in launch_sites :
                 /\ NormCountry(s.country) = timeline_table.rows[g].country
                 /\ PadHasEvent(s.site_id, current_year, current_month)
        /\ \A s \in launch_sites :
              ~PadHasEvent(s.site_id, current_year, current_month)
                 => \A r \in PadRows : timeline_table.rows[r].site_id # s.site_id

\* the filter is on, a country is expanded with a pad row, and another pad of that
\* country, whose only event is in the month before with a window reaching into
\* the displayed month, has no row
C26_Witness ==
    /\ table_current
    /\ show_only_active
    /\ \E s \in launch_sites :
          /\ ~PadHasEvent(s.site_id, current_year, current_month)
          /\ \E i \in 1..Len(launches) :
                /\ launches[i].site_id = s.site_id
                /\ strftime_ym(launches[i].launch_date)
                      = PrevMonthOf(current_year, current_month)
                /\ launches[i].launch_date.d + pad_turnaround_days > DaysInPrevMonth
          /\ \A r \in PadRows : timeline_table.rows[r].site_id # s.site_id
          /\ \E r \in PadRows : timeline_table.rows[r].country = NormCountry(s.country)

\* the stored event is joined to a pad of the store (otherwise the LEFT JOIN leaves
\* its location and launch_pad null, a key no pad has)
Matched(l) == \E s \in launch_sites : s.site_id = l.site_id

UnmatchedIds == { i \in 1..Len(launches) : ~Matched(launches[i]) }

(* C29 - an event whose (location, pad) key is the key of no pad of        *)
(* get_all_sites (an event without a site) affects nothing: rows, cell     *)
(* states and counts are those of the store without such events, no cell   *)
(* represents such an event, and under the show-only-active filter every   *)
(* displayed pad and every header's country has an event of its own.       *)
C29_UnmatchedEventInert ==
    table_current =>
        /\ Classification(timeline_table) =
             Classification(update_timeline(launch_sites, site_extra,
                                SelectSeq(launches, Matched), current_year,
                                current_month, show_only_active, expanded_groups,
                                FALSE).table)
        /\ \A r \in PadRows : \A d \in Days :
              /\ CellAt(r, d).launch_id \notin UnmatchedIds
              /\ CellAt(r, d).count <= Cardinality(EventsOn(r, d))
        /\ show_only_active =>
              /\ \A r \in PadRows : \E s \in launch_sites :
                    /\ s.site_id = timeline_table.rows[r].site_id
                    /\ PadHasEvent(s.site_id, current_year, current_month)
              /\ \A g \in GroupRows(timeline_table) : \E s \in launch_sites :
                    /\ NormCountry(s.country) = timeline_table.rows[g].country
                    /\ PadHasEvent(s.site_id, current_year, current_month)

\* an event without a site falls on the same day of the displayed month as the one
\* event of a displayed pad, whose cell counts 1; the layout completed
C29_Witness ==
    /\ table_current
    /\ timeline_table.raised_at = 0
    /\ \E u \in UnmatchedIds : \E r \in PadRows :
          /\ strftime_ym(launches[u].launch_date) = <<current_year, current_month>>
          /\ Shows(CellAt(r, launches[u].launch_date.d), "EVENT")
          /\ CellAt(r, launches[u].launch_date.d).count = 1

\* run is between its first statement and its return
SyncRunning == sync_pc \in {"open", "api", "close"}

\* the payload the code emits when run leaves through the stage it is in
PathPayloads ==
    IF sync_pc = "open" THEN {ErrorResult(ExcText("open"))}
    ELSE IF sync_pc = "api" THEN {ErrorResult(ExcText("api"))}
    ELSE {sync_result, ErrorResult(ExcText("close"))}

(* C27 - SyncWorker.run emits finished exactly once on every path: no emit *)
(* while it runs, one when it has returned, and run does return; the       *)
(* payload is the sync result on success, zero counts without errors for   *)
(* an unknown sync_type, and zero counts with the exception text when      *)
(* opening the database, the API call or closing the database raised.      *)
C27_FinishedOnce ==
    /\ [](/\ SyncRunning => finished_emits = <<>>
          /\ sync_pc = "returned" => Len(finished_emits) = 1
          /\ (sync_pc = "returned" /\ sync_type \notin {"upcoming", "previous", "rockets"})
                => finished_emits[1] \in {ZeroResult, ErrorResult(ExcText("open")),
                                          ErrorResult(ExcText("close"))})
    /\ [][ (SyncRunning /\ sync_pc' = "returned")
              => /\ finished_emits' = <<finished_emits'[1]>>
                 /\ finished_emits'[1] \in PathPayloads
                 /\ finished_emits'[1].errors = <<>>
                       => /\ sync_pc = "close"
                          /\ finished_emits'[1] = sync_result
                          /\ sync_result # NoResult
                 /\ finished_emits'[1].errors # <<>>
                       => /\ finished_emits'[1].added = 0
                          /\ finished_emits'[1].updated = 0
                          /\ finished_emits'[1].errors = <<ExcText(sync_pc)>> ]_vars
    /\ (SyncRunning ~> sync_pc = "returned")

\* a sync that merged a launch and then failed to close the database has emitted
\* once, the error payload
C27_Witness ==
    /\ sync_pc = "returned"
    /\ sync_result = ApiResult(sync_type, 1)
    /\ SyncedLaunch \in { launches[i] : i \in 1..Len(launches) }
    /\ finished_emits = <<ErrorResult(ExcText("close"))>>

\* a step of the GUI thread that calls update_timeline
LayoutStep ==
    init_ui \/ previous_month \/ next_month \/ toggle_active_only \/ cell_clicked_group

AsZones(sites) ==
    { [reentry_site_id |-> x.site_id, location |-> x.location,
       drop_zone |-> x.launch_pad, country |-> x.country] : x \in sites }

AsReentries(rows) ==
    [i \in 1..Len(rows) |->
        [reentry_date |-> rows[i].launch_date, reentry_site_id |-> rows[i].site_id,
         status_color |-> rows[i].status_color]]

\* the re-entry table read as a launch table: a zone row as a pad row, reentry_id
\* as launch_id
AsLaunchTable(t) ==
    [rows |-> [r \in 1..Len(t.rows) |->
                 IF t.rows[r].type = "group" THEN t.rows[r]
                 ELSE [type |-> "site", country |-> t.rows[r].country,
                       location |-> t.rows[r].location, pad |-> t.rows[r].drop_zone,
                       site_id |-> t.rows[r].site_id,
                       turnaround_days |-> t.rows[r].turnaround_days]],
     cells |-> [r \in DOMAIN t.cells |->
                  [d \in DOMAIN t.cells[r] |->
                     Cell(t.cells[r][d].state, t.cells[r][d].count,
                          t.cells[r][d].reentry_id, t.cells[r][d].color)]],
     days |-> t.days,
     raised_at |-> t.raised_at]

(* C28 - TimelineView and ReentryTimelineView are the same layout machine: *)
(* on the same pads, events, cursor, filter flag and expand set, first or  *)
(* later call, both update_timeline produce the same expand set, the same  *)
(* row sequence and the same state, count and color of every cell; and a   *)
(* header click and a navigation step change the expand set and the cursor *)
(* of either view in the same way.                                         *)
C28_SameLayoutMachine ==
    /\ [](\A initial \in BOOLEAN :
            LET a == update_timeline(launch_sites, site_extra, launches, current_year,
                                     current_month, show_only_active, expanded_groups,
                                     initial)
                b == reentry_update_timeline(AsZones(launch_sites), site_extra,
                                             AsReentries(launches), current_year,
                                             current_month, show_only_active,
                                             expanded_groups, initial)
            IN  /\ b.expanded_groups = a.expanded_groups
                /\ AsLaunchTable(b.table) = a.table)
    /\ [][ /\ cell_clicked_group
                => \E g \in GroupRows(timeline_table) :
                      expanded_groups'
                        = ReentryToggled(expanded_groups, timeline_table.rows[g].country)
           /\ previous_month
                => <<current_year', current_month'>>
                     = ReentryPrevCursor(current_year, current_month)
           /\ next_month
                => <<current_year', current_month'>>
                     = ReentryNextCursor(current_year, current_month) ]_vars

\* both views, filter off and one country collapsed by a click, show a pad of
\* another country with EVENT, RECOVERY and IDLE cells
C28_Witness ==
    /\ table_current
    /\ ~show_only_active
    /\ \E g \in GroupRows(timeline_table) : ~timeline_table.rows[g].expanded
    /\ \E r \in PadRows :
          /\ \E d \in Days : Shows(CellAt(r, d), "EVENT")
          /\ \E d \in Days : Shows(CellAt(r, d), "RECOVERY")
          /\ \E d \in Days : Shows(CellAt(r, d), "IDLE")
    /\ AsLaunchTable(reentry_update_timeline(AsZones(launch_sites), site_extra,
                          AsReentries(launches), current_year, current_month,
                          show_only_active, expanded_groups, FALSE).table)
         = timeline_table

\* the zone of the selected table row
SelectedZoneId == zones_table[zone_current_row + 1].site_id

(* C30 - delete_zone confirmed for a selected row removes that zone from   *)
(* reentry_sites (get_all_sites('REENTRY') no longer returns it), removes  *)
(* no launch site and refreshes the table; declined, or with no row        *)
(* selected, it removes no site.                                           *)
C30_DeleteZone ==
    [][ /\ (zone_current_row >= 0 /\ delete_zone("Yes"))
              => /\ \A z \in reentry_sites' : z.reentry_site_id # SelectedZoneId
                 /\ \A k \in 1..Len(get_all_sites_reentry(reentry_sites')) :
                       get_all_sites_reentry(reentry_sites')[k].site_id # SelectedZoneId
                 /\ launch_sites' = launch_sites
                 /\ zones_table' = get_all_sites_reentry(reentry_sites')
        /\ (zone_current_row < 0 /\ \E reply \in {"Yes", "No"} : delete_zone(reply))
              => UNCHANGED <<reentry_sites, launch_sites>>
        /\ (zone_current_row >= 0 /\ delete_zone("No"))
              => UNCHANGED <<reentry_sites, launch_sites>> ]_vars

====
